---------------------------- MODULE Spec2Model ----------------------------
(***************************************************************************)
(* Hardware-sequencing SPI flash engine of chipsec/hal/spi.py.             *)
(*                                                                         *)
(* The engine is modelled one register access per step.  The controller    *)
(* (status register, data window, flash array) is the environment: it is   *)
(* folded into the register accesses, so a status read may find that the   *)
(* cycle in flight has completed since the previous access.                *)
(***************************************************************************)
EXTENDS Integers, Naturals, Sequences, FiniteSets, TLC

(* ------------------------- program constants ------------------------- *)
SPI_READ_WRITE_MAX_DBC == 64
SPI_READ_WRITE_DEF_DBC == 4
WRITE_DBC == 4
PCH_RCBA_SPI_HSFSTS_SCIP == 32
PCH_RCBA_SPI_HSFSTS_AEL == 4
PCH_RCBA_SPI_HSFSTS_FCERR == 2
PCH_RCBA_SPI_HSFSTS_FDONE == 1
PCH_RCBA_SPI_HSFCTL_FCYCLE_READ == 0
PCH_RCBA_SPI_HSFCTL_FCYCLE_WRITE == 2
PCH_RCBA_SPI_HSFCTL_FCYCLE_ERASE == 3
PCH_RCBA_SPI_HSFCTL_FCYCLE_SFDP == 5
PCH_RCBA_SPI_HSFCTL_FCYCLE_JEDEC == 6
PCH_RCBA_SPI_HSFCTL_FCYCLE_FGO == 1
PCH_RCBA_SPI_FADDR_MASK == 134217727
POLL_COUNT == 1000
FDATA_SLOTS == 16
SPI_FLASH_DESCRIPTOR_SIZE == 4096
SIGNATURE_OFFSET == 16
SPI_FLA_SHIFT == 12
SPI_FLA_PAGE_MASK == 4095
SPI_REGION_NUMBER_IN_FD == 12
SPI_MAX_PR_COUNT == 5

ReadCycleOfWriteType ==
    (PCH_RCBA_SPI_HSFCTL_FCYCLE_WRITE * 2) + PCH_RCBA_SPI_HSFCTL_FCYCLE_FGO
HSFCTL_READ_CYCLE ==
    (PCH_RCBA_SPI_HSFCTL_FCYCLE_READ * 2) + PCH_RCBA_SPI_HSFCTL_FCYCLE_FGO
HSFCTL_WRITE_CYCLE ==
    (PCH_RCBA_SPI_HSFCTL_FCYCLE_WRITE * 2) + PCH_RCBA_SPI_HSFCTL_FCYCLE_FGO
HSFCTL_ERASE_CYCLE ==
    (PCH_RCBA_SPI_HSFCTL_FCYCLE_ERASE * 2) + PCH_RCBA_SPI_HSFCTL_FCYCLE_FGO
HSFCTL_JEDEC_CYCLE ==
    (PCH_RCBA_SPI_HSFCTL_FCYCLE_JEDEC * 2) + PCH_RCBA_SPI_HSFCTL_FCYCLE_FGO
HSFCTL_SFDP_CYCLE ==
    (PCH_RCBA_SPI_HSFCTL_FCYCLE_SFDP * 2) + PCH_RCBA_SPI_HSFCTL_FCYCLE_FGO
HSFSTS_CLEAR ==
    PCH_RCBA_SPI_HSFSTS_AEL + PCH_RCBA_SPI_HSFSTS_FCERR + PCH_RCBA_SPI_HSFSTS_FDONE

(* ------------------------------ bounds ------------------------------- *)
\* Largest transfer length of the register-level specification Spec.
MaxLen == 5
\* Number of distinct byte patterns a write buffer is drawn from.
MaxSeed == 1
\* Largest length, in dwords, of the first SFDP parameter table.
MaxTable == 2
\* Largest number of image bytes after the descriptor signature.
MaxTail == 16
\* Largest offset at which the sample register values are laid over the registers.
MaxShift == 5
\* Largest number of chunks of a concurrent caller's transfer.
MaxChunks == 2

(* --------------------------- bit arithmetic -------------------------- *)
RECURSIVE BitAnd(_, _)
BitAnd(a, b) ==
    IF a = 0 \/ b = 0 THEN 0
    ELSE ((a % 2) * (b % 2)) + 2 * BitAnd(a \div 2, b \div 2)

RECURSIVE BitOr(_, _)
BitOr(a, b) ==
    IF a = 0 THEN b
    ELSE IF b = 0 THEN a
    ELSE (IF (a % 2) + (b % 2) > 0 THEN 1 ELSE 0) + 2 * BitOr(a \div 2, b \div 2)

RECURSIVE Pow2(_)
Pow2(k) == IF k = 0 THEN 1 ELSE 2 * Pow2(k - 1)

Shl(v, k) == v * Pow2(k)
Shr(v, k) == v \div Pow2(k)

(* ------------------------ data packing helpers ----------------------- *)
\* A 32-bit register value is held as its four base-256 digits, least
\* significant first: <<b0, b1, b2, b3>> stands for b0 + b1*2^8 + b2*2^16 + b3*2^24.
ZeroDword == <<0, 0, 0, 0>>

\* (d >> (8 * j)) & 0xff
ByteOf(d, j) == d[j + 1]

\* b << (8 * j), for a byte b
ByteShl(b, j) == [k \in 1..4 |-> IF k = j + 1 THEN b ELSE 0]

\* x | y
DwordOr(x, y) == [k \in 1..4 |-> BitOr(x[k], y[k])]

\* x & m
DwordAnd(x, m) == [k \in 1..4 |-> BitAnd(x[k], m[k])]

\* (x << (8 * j)) for a value below 2^(32 - 8j): digits move up j places
DwordShlBytes(x, j) == [k \in 1..4 |-> IF k - j >= 1 THEN x[k - j] ELSE 0]

\* x >> (8 * j): digits move down j places
DwordShrBytes(x, j) == [k \in 1..4 |-> IF k + j <= 4 THEN x[k + j] ELSE 0]

\* SPI_FLASH_DESCRIPTOR_SIGNATURE = struct.pack('=I', 0x0FF0A55A)
SPI_FLASH_DESCRIPTOR_SIGNATURE == <<90, 165, 240, 15>>

\* SFDP_HEADER = 0x50444653
SFDP_HEADER == <<83, 70, 68, 80>>

\* struct.pack("I", dword): the four bytes of a dword, least significant first.
PackDword(d) == [j \in 1..4 |-> ByteOf(d, j - 1)]

\* struct.pack('B', (dword >> (8 * j)) & 0xff) for j in range(t)
LowBytes(d, t) == [j \in 1..t |-> ByteOf(d, j - 1)]

(* ------------------------------ state -------------------------------- *)
VARIABLES
    \* controller (environment)
    hsfs,          \* HSFS low byte: SCIP, AEL, FCERR, FDONE
    fdv,           \* HSFS.FDV field (flash descriptor valid)
    faddr,         \* FADDR register
    hsfc_dbc,      \* byte at HSFC + 1 (data byte count field)
    hsfc,          \* last value written to HSFC
    fdata,         \* data window FDATA0..FDATA15
    flash,         \* flash array, flash linear address -> byte
    inflight,      \* the cycle the controller is executing
    w1c,           \* error-log bits of HSFS are write-1-to-clear
    prompt,        \* register backend completes a cycle at the go write
    \* engine (spi.py)
    pc, op, spi_fla, data_byte_count, wbuf, buf, dbc, n, r, i, write_ok,
    cycle_done, hsfsts, poll_i, waitFor, cyc, ret, secondCall,
    bufKind,       \* what indexing write_spi's buf argument yields
    \* identity readers (get_SPI_JEDEC_ID, get_SPI_SFDP)
    has_fcycle,    \* cs.register_has_field('HSFS', 'FCYCLE')
    jedec_id,      \* the dword a JEDEC cycle leaves in FDATA0 (environment)
    sfdp,          \* what BIOS_PTDATA returns: signatures, header count, length
    component, offset, num_of_param_headers, param1_length, count,
    sfdp_ret,      \* get_SPI_SFDP's local ret
    ptlog,         \* the indices written to BIOS_PTINX, in order
    fdataReads,    \* data-window slots read by the identity readers, in order
    \* parse_spi_flash_descriptor
    rom,           \* the image, a sequence of bytes
    romKind,       \* the type of the rom argument
    pos, fd_off,
    fdesc,         \* fd, the slice of rom that holds the descriptor
    decoded,       \* the descriptor fields unpacked so far: <<name, dword>>
    has_nr,        \* cs.register_has_field('FLMAP0', 'NR')
    flreg_defs,    \* the r with cs.is_register_defined('FLREG<r>')
    fcba, frba, nr, fmba, nm,
    flregs,        \* the list flregs: None or (flreg, base, limit, notused)
    flmstrs,       \* the list flmstrs: None or (MRRA, MRWA)
    sect_idx,      \* the loop variable of the section being read (r, m)
    sectReads,     \* offsets in fd of the dwords unpacked in the sections
    \* regions, protected ranges and BIOS write protection
    fregs,         \* the FREGx registers: region id -> dword (environment)
    freg_defs,     \* the region ids with cs.is_register_defined(SPI_REGION[id])
    all_regions,   \* get_SPI_regions' argument
    spi_regions,   \* get_SPI_regions' dict: region id -> tuple
    region_idx,    \* position of "for r in SPI_REGION"
    pr_num,        \* get_SPI_Protected_Range's argument
    pr_regs,       \* the PRx registers: index -> dword (environment)
    pr_defs,       \* the indices n with a register definition 'PR<n>'
    bc,            \* the controls of BIOS Control: BLE, BIOSWE, SMM_BWP
    smi_reverts,   \* with BLE set, the SMI handler clears BIOSWE again
    ble, bioswe, smmbwp,
    cfgLog,        \* accesses through cs, in order
    \* concurrent callers: a read_spi and a write_spi of the same range
    lock_scope,    \* what the callers' engine lock spans
    mutex,         \* the holder of the engine lock, or "none"
    task,          \* per caller: position, chunk index i, read buffer buf
    faddr_by,      \* the caller that last wrote FADDR
    fdata_by,      \* the caller whose write or cycle last filled the window
    foreign,       \* a cycle went out on another caller's address or data
    \* observation of the run (not program state)
    polls,         \* status samples of the current wait, up to its decision
    sleeps,        \* sleeps of the current wait
    sawIdle,       \* the current wait has sampled SCIP clear
    log,           \* register accesses of the current cycle, polls collapsed
    cycles,        \* cycles issued by the current call: <<cmd, dbc, fla>>
    observedIdle,  \* SCIP was sampled clear since the last go write
    goBeforeIdle,  \* a go write happened while observedIdle was false
    hwErr,         \* the engine's last cycle completed with AEL or FCERR
    wrote,         \* registers written by the current call
    cyclesOk,      \* every cycle of the current call has returned success
    written        \* bytes and address of the completed write_spi call

hwVars == <<hsfs, fdv, faddr, hsfc_dbc, hsfc, fdata, flash, inflight, w1c, prompt>>
sectVars == <<has_nr, flreg_defs, fcba, frba, nr, fmba, nm, flregs, flmstrs,
              sect_idx, sectReads>>
fdVars == <<rom, romKind, pos, fd_off, fdesc, decoded, sectVars>>
cfgVars == <<fregs, freg_defs, all_regions, spi_regions, region_idx, pr_num,
             pr_regs, pr_defs, bc, smi_reverts, ble, bioswe, smmbwp, cfgLog>>
lockVars == <<lock_scope, mutex, task, faddr_by, fdata_by, foreign>>
callIn == <<op, spi_fla, data_byte_count, wbuf, bufKind, secondCall, written,
            fdVars, cfgVars, lockVars>>
idIn == <<has_fcycle, jedec_id, sfdp>>
sfdpLocals == <<component, offset, num_of_param_headers, param1_length, count,
                sfdp_ret>>
idVars == <<idIn, sfdpLocals, ptlog, fdataReads>>
callVars == <<op, spi_fla, data_byte_count, wbuf, bufKind, secondCall, written,
              cyclesOk, idVars, fdVars, cfgVars, lockVars>>
callArgs == <<op, spi_fla, data_byte_count, wbuf, bufKind, secondCall, written,
              idVars, fdVars, cfgVars, lockVars>>
xferVars == <<buf, dbc, n, r, i, write_ok>>
waitObs == <<polls, sleeps, sawIdle>>
vars == <<hsfs, fdv, faddr, hsfc_dbc, hsfc, fdata, flash, inflight, w1c, prompt,
          pc, op, spi_fla, data_byte_count, wbuf, buf, dbc, n, r, i, write_ok,
          cycle_done, hsfsts, poll_i, waitFor, cyc, ret, secondCall, bufKind,
          polls, sleeps, sawIdle, log, cycles, observedIdle,
          goBeforeIdle, hwErr, wrote, cyclesOk, written,
          has_fcycle, jedec_id, sfdp, component, offset, num_of_param_headers,
          param1_length, count, sfdp_ret, ptlog, fdataReads,
          rom, romKind, pos, fd_off, fdesc, decoded,
          has_nr, flreg_defs, fcba, frba, nr, fmba, nm, flregs, flmstrs,
          sect_idx, sectReads,
          fregs, freg_defs, all_regions, spi_regions, region_idx, pr_num,
          pr_regs, pr_defs, bc, smi_reverts, ble, bioswe, smmbwp, cfgLog,
          lock_scope, mutex, task, faddr_by, fdata_by, foreign>>

(* --------------------- controller (environment) ---------------------- *)
NoCycle == [kind |-> "none", type |-> 0, addr |-> 0, count |-> 0]
ForeignCycle == [kind |-> "foreign", type |-> 0, addr |-> 0, count |-> 0]

HasBit(v, b) == BitAnd(v, b) # 0

\* Flash linear addresses are 27 bits wide: the array wraps at the mask.
Fla(a) == a % (PCH_RCBA_SPI_FADDR_MASK + 1)

\* Byte j (0-based) of the data window.
WindowByte(fd, j) == ByteOf(fd[j \div 4], j % 4)

\* A read cycle of c bytes at a: flash bytes a .. a+c-1 land in the window,
\* byte j in slot j div 4 at byte position j mod 4; other bytes are kept.
LoadWindow(fd, fl, a, c) ==
    [k \in 0..(FDATA_SLOTS - 1) |->
        LET byte(j) == IF 4 * k + j < c THEN fl[Fla(a + 4 * k + j)]
                       ELSE WindowByte(fd, 4 * k + j)
        IN <<byte(0), byte(1), byte(2), byte(3)>>]

\* A write cycle of c bytes at a: window bytes 0 .. c-1 are stored at a .. a+c-1.
StoreFlash(fl, fd, a, c) ==
    [x \in DOMAIN fl |->
        IF \E j \in 0..(c - 1) : Fla(a + j) = x
        THEN WindowByte(fd, CHOOSE j \in 0..(c - 1) : Fla(a + j) = x)
        ELSE fl[x]]

\* A block erase at a: every byte of the 4 KiB block of a reads 0xFF.
EraseFlash(fl, a) ==
    [x \in DOMAIN fl |->
        IF Shr(x, SPI_FLA_SHIFT) = Shr(Fla(a), SPI_FLA_SHIFT) THEN 255 ELSE fl[x]]

ErrBits(o) ==
    CASE o = "fcerr" -> PCH_RCBA_SPI_HSFSTS_FCERR
      [] o = "ael" -> PCH_RCBA_SPI_HSFSTS_AEL
      [] OTHER -> 0

\* The controller after the cycle c completes with outcome o: SCIP falls,
\* FDONE and the error bits of o rise; a cycle that ends in error transfers
\* nothing.
CompletedHsfs(h, o) ==
    BitOr(h - BitAnd(h, PCH_RCBA_SPI_HSFSTS_SCIP),
          BitOr(PCH_RCBA_SPI_HSFSTS_FDONE, ErrBits(o)))

\* A JEDEC ID cycle leaves the part's identity in FDATA0.
LoadJedec(fd) == [fd EXCEPT ![0] = jedec_id]

\* An SFDP cycle fills the window with the part's SFDP bytes.
LoadSfdp(fd) == [k \in 0..(FDATA_SLOTS - 1) |-> <<4 * k, 4 * k + 1, 4 * k + 2, 4 * k + 3>>]

CompletedFdata(fd, fl, c, o) ==
    IF o = "ok" /\ c.kind = "engine" /\ c.type = PCH_RCBA_SPI_HSFCTL_FCYCLE_READ
    THEN LoadWindow(fd, fl, c.addr, c.count)
    ELSE IF o = "ok" /\ c.kind = "engine"
            /\ c.type = PCH_RCBA_SPI_HSFCTL_FCYCLE_JEDEC
    THEN LoadJedec(fd)
    ELSE IF o = "ok" /\ c.kind = "engine"
            /\ c.type = PCH_RCBA_SPI_HSFCTL_FCYCLE_SFDP
    THEN LoadSfdp(fd)
    ELSE fd

CompletedFlash(fl, fd, c, o) ==
    IF o = "ok" /\ c.kind = "engine" /\ c.type = PCH_RCBA_SPI_HSFCTL_FCYCLE_WRITE
    THEN StoreFlash(fl, fd, c.addr, c.count)
    ELSE IF o = "ok" /\ c.kind = "engine"
            /\ c.type = PCH_RCBA_SPI_HSFCTL_FCYCLE_ERASE
    THEN EraseFlash(fl, c.addr) ELSE fl

\* What a status read can find: nothing new, or (on a controller that runs
\* cycles asynchronously) that the cycle in flight has completed meanwhile.
SampleOutcomes ==
    IF HasBit(hsfs, PCH_RCBA_SPI_HSFSTS_SCIP) /\ ~prompt
    THEN {"same", "ok", "fcerr", "ael"} ELSE {"same"}

\* spi_reg_read(hsfs_off, 1) under outcome o: the controller moves, the engine
\* gets the new status byte in hsfsts.
StatusRead(o) ==
    /\ IF o = "same"
       THEN UNCHANGED <<hsfs, fdata, flash, inflight, hwErr>>
       ELSE /\ hsfs' = CompletedHsfs(hsfs, o)
            /\ fdata' = CompletedFdata(fdata, flash, inflight, o)
            /\ flash' = CompletedFlash(flash, fdata, inflight, o)
            /\ inflight' = NoCycle
            /\ hwErr' = IF inflight.kind = "engine" THEN o # "ok" ELSE hwErr
    /\ hsfsts' = hsfs'
    /\ observedIdle' = (observedIdle \/ ~HasBit(hsfs', PCH_RCBA_SPI_HSFSTS_SCIP))
    /\ UNCHANGED <<fdv, faddr, hsfc_dbc, hsfc, w1c, prompt>>

\* spi_reg_write(hsfs_off, v, 1): on a write-1-to-clear controller the log bits
\* named by v are cleared; otherwise the write leaves them standing.
HsfsAfterWrite(h, v) ==
    IF w1c THEN h - BitAnd(h, BitAnd(v, HSFSTS_CLEAR)) ELSE h

(* ------------------------------ inputs ------------------------------- *)
Ops == {"read_spi", "write_spi", "erase_spi_block"}

\* Addresses: one whose transfer crosses the 27-bit wrap, and one above 27
\* bits (masked by the FADDR write to a plain low address).
Addrs == {PCH_RCBA_SPI_FADDR_MASK - 1, PCH_RCBA_SPI_FADDR_MASK + 7}

\* The status the call finds: idle or busy with another agent's cycle, with
\* no stale log bits, a stale flash-cycle error, or a stale access error.
HsfsValues ==
    {0, PCH_RCBA_SPI_HSFSTS_FCERR + PCH_RCBA_SPI_HSFSTS_FDONE,
     PCH_RCBA_SPI_HSFSTS_AEL, PCH_RCBA_SPI_HSFSTS_SCIP}

\* The caller's buffer: len bytes, distinct neighbours, one pattern per seed.
Pattern(seed, len) == [j \in 1..len |-> (17 + 101 * seed + 37 * (j - 1)) % 256]

\* Content of the flash array before the call.
FlashByte0(a) == (3 + 7 * a) % 256

\* The flash addresses a call on (fla, len) can touch.
FlashDom(fla, len) == {Fla(fla + k) : k \in 0..(IF len = 0 THEN 0 ELSE len - 1)}

\* write_spi's buf argument: a sequence of one-byte elements, as
\* write_spi_from_file passes it (struct.unpack('c' * len(buf), buf)), or a
\* bytes / bytearray object, whose elements are integers.
BufKinds == {"chars", "bytes"}

\* The identity readers' state while another operation runs.
NoSfdp == [sig |-> <<ZeroDword, ZeroDword>>, nph |-> 0, len |-> 0]

InitIdentity(f, j, sf) ==
    /\ has_fcycle = f
    /\ jedec_id = j
    /\ sfdp = sf
    /\ component = 0 /\ offset = 0 /\ num_of_param_headers = 0
    /\ param1_length = 0 /\ count = 0 /\ sfdp_ret = FALSE
    /\ ptlog = <<>> /\ fdataReads = <<>>

\* parse_spi_flash_descriptor(rom) before its first statement.
\* The region indices of SPI_REGION: every FLREG<r> a platform can define.
AllFlregs == 0..(SPI_REGION_NUMBER_IN_FD - 1)

\* The same over a platform with or without the NR field of FLMAP0 and with
\* the registers FLREG<r>, r in defs, defined.
InitParseOn(img, kind, hasnr, defs) ==
    /\ rom = img
    /\ romKind = kind
    /\ pos = -1 /\ fd_off = 0 /\ fdesc = <<>> /\ decoded = <<>>
    /\ has_nr = hasnr /\ flreg_defs = defs
    /\ fcba = 0 /\ frba = 0 /\ nr = 0 /\ fmba = 0 /\ nm = 0
    /\ flregs = <<>> /\ flmstrs = <<>> /\ sect_idx = 0 /\ sectReads = <<>>

InitParse(img, kind) == InitParseOn(img, kind, TRUE, AllFlregs)

NoParse == InitParse(<<>>, "bytes")

\* The registers and controls a call of get_SPI_regions,
\* get_SPI_Protected_Range or disable_BIOS_write_protection finds, and the
\* call's arguments.
InitCfg(fr, fdefs, allr, prn, prr, prdefs, ctl, smi) ==
    /\ fregs = fr /\ freg_defs = fdefs /\ all_regions = allr
    /\ spi_regions = <<>> /\ region_idx = 0
    /\ pr_num = prn /\ pr_regs = prr /\ pr_defs = prdefs
    /\ bc = ctl /\ smi_reverts = smi
    /\ ble = 0 /\ bioswe = 0 /\ smmbwp = 0
    /\ cfgLog = <<>>

\* The callers of the concurrent runs, and their state before the calls
\* under the lock discipline sc.
Tasks == {"R", "W"}

InitLock(sc) ==
    /\ lock_scope = sc
    /\ mutex = "none"
    /\ task = [t \in Tasks |-> [pc |-> "enter", i |-> 0, buf |-> <<>>]]
    /\ faddr_by = "none" /\ fdata_by = "none"
    /\ foreign = FALSE

NoLock == InitLock("call")

NoCfg ==
    InitCfg([k \in AllFlregs |-> ZeroDword], AllFlregs, TRUE, 0,
            [k \in 0..SPI_MAX_PR_COUNT |-> ZeroDword], 0..(SPI_MAX_PR_COUNT - 1),
            [BLE |-> 0, BIOSWE |-> 0, SMM_BWP |-> 0], FALSE)

CallBase(o, a, len, seed, kind) ==
    /\ op = o
    /\ bufKind = kind
    /\ spi_fla = a
    /\ data_byte_count = len
    /\ wbuf = IF o = "write_spi" THEN Pattern(seed, len) ELSE <<>>
    /\ flash = [x \in FlashDom(a, len) |-> FlashByte0(x)]
    /\ pc = "enter"
    /\ buf = <<>> /\ dbc = 0 /\ n = 0 /\ r = 0 /\ i = 0 /\ write_ok = TRUE
    /\ cycle_done = FALSE /\ hsfsts = 0 /\ poll_i = 0 /\ waitFor = "none"
    /\ cyc = [cmd |-> 0, dbc |-> 0, fla |-> 0]
    /\ ret = [kind |-> "pending"]
    /\ secondCall = FALSE
    /\ polls = 0 /\ sleeps = 0 /\ sawIdle = FALSE /\ log = <<>>
    /\ cycles = <<>> /\ observedIdle = FALSE /\ goBeforeIdle = FALSE
    /\ hwErr = FALSE /\ wrote = {} /\ cyclesOk = TRUE
    /\ written = [fla |-> 0, bytes |-> <<>>, ok |-> FALSE]

InitCall(o, a, len, seed, kind) ==
    /\ CallBase(o, a, len, seed, kind)
    /\ InitIdentity(TRUE, ZeroDword, NoSfdp)
    /\ NoParse
    /\ NoCfg
    /\ NoLock

InitHw(h, v, w, p) ==
    /\ hsfs = h
    /\ fdv = v
    /\ w1c = w
    /\ prompt = p
    /\ faddr = 0 /\ hsfc_dbc = 0 /\ hsfc = 0
    /\ fdata = [k \in 0..(FDATA_SLOTS - 1) |-> ZeroDword]
    /\ inflight = IF HasBit(h, PCH_RCBA_SPI_HSFSTS_SCIP) THEN ForeignCycle ELSE NoCycle

\* One call of read_spi, write_spi or erase_spi_block on a controller found in
\* any state, running its cycles asynchronously.
Init ==
    /\ \E h \in HsfsValues, v \in {0, 1}, w \in BOOLEAN : InitHw(h, v, w, FALSE)
    /\ \E o \in Ops, a \in Addrs, len \in 0..MaxLen :
          /\ (o = "erase_spi_block" => len = 0)
          /\ \E kind \in BufKinds :
                /\ (o # "write_spi" => kind = "chars")
                /\ InitCall(o, a, len, 0, kind)

(* --------------------- _wait_SPI_flash_cycle_done -------------------- *)
\* cycle_done = not (hsfsts & PCH_RCBA_SPI_HSFSTS_SCIP)
CycleDone(h) == ~HasBit(h, PCH_RCBA_SPI_HSFSTS_SCIP)

\* Variant: only the flash-cycle error bit is tested.
NoErrorsFcerrOnly(h) == ~HasBit(h, PCH_RCBA_SPI_HSFSTS_FCERR)

\* cycle_done = not ((hsfsts & AEL) or (hsfsts & FCERR))
NoErrors(h) ==
    ~(HasBit(h, PCH_RCBA_SPI_HSFSTS_AEL) \/ HasBit(h, PCH_RCBA_SPI_HSFSTS_FCERR))

\* Variant: the clear is written whatever the wait found.
ClearAlways(done) == TRUE

\* "if cycle_done:" before the clear
ClearWanted(done) == done

\* Variant: the sleep is taken whatever the loop found.
SleepAlways(done) == TRUE

\* "if not cycle_done:" after the poll loop
SleepWanted(done) == ~done

\* The call of _wait_SPI_flash_cycle_done by caller who.
StartWait(who) ==
    /\ pc' = "w_poll"
    /\ waitFor' = who
    /\ poll_i' = 0
    /\ polls' = 0
    /\ sleeps' = 0
    /\ sawIdle' = FALSE

\* Where the wait goes on its decision: to the clear, or out with the timeout.
\* The sample count and the loop index are dead once the clear begins.
Decide(done) ==
    IF ClearWanted(done)
    THEN pc' = "w_clear" /\ polls' = 0 /\ poll_i' = 0
    ELSE pc' = "w_ret" /\ polls' = polls + 1 /\ poll_i' = poll_i

\* One iteration of "for i in range(1000)": sample, test SCIP, break when clear;
\* after the loop, "if not cycle_done:" leads to the sleep.
wait_poll ==
    /\ pc = "w_poll"
    /\ \E o \in SampleOutcomes : StatusRead(o)
    /\ cycle_done' = CycleDone(hsfsts')
    /\ sawIdle' = (sawIdle \/ CycleDone(hsfsts'))
    /\ log' = IF log # <<>> /\ log[Len(log)] = "POLL" THEN log ELSE Append(log, "POLL")
    /\ IF ~cycle_done' /\ poll_i + 1 < POLL_COUNT
       THEN pc' = "w_poll" /\ poll_i' = poll_i + 1 /\ polls' = polls + 1
       ELSE IF SleepWanted(cycle_done')
       THEN pc' = "w_sleep" /\ poll_i' = poll_i /\ polls' = polls + 1
       ELSE Decide(cycle_done')
    /\ UNCHANGED <<callVars, xferVars, waitFor, cyc, ret, sleeps, cycles,
                   goBeforeIdle, wrote>>

\* time.sleep(0.1)
wait_sleep ==
    /\ pc = "w_sleep"
    /\ pc' = "w_sample"
    /\ sleeps' = sleeps + 1
    /\ log' = Append(log, "SLEEP")
    /\ UNCHANGED <<hwVars, callVars, xferVars, cycle_done, hsfsts, poll_i, waitFor,
                   cyc, ret, polls, sawIdle, cycles, observedIdle, goBeforeIdle,
                   hwErr, wrote>>

\* The one sample after the sleep, then "if cycle_done:".
wait_sample ==
    /\ pc = "w_sample"
    /\ \E o \in SampleOutcomes : StatusRead(o)
    /\ cycle_done' = CycleDone(hsfsts')
    /\ sawIdle' = (sawIdle \/ CycleDone(hsfsts'))
    /\ log' = Append(log, "POLL")
    /\ Decide(cycle_done')
    /\ UNCHANGED <<callVars, xferVars, waitFor, cyc, ret, sleeps, cycles,
                   goBeforeIdle, wrote>>

\* spi_reg_write(hsfs_off, HSFSTS_CLEAR, 1)
wait_clear ==
    /\ pc = "w_clear"
    /\ hsfs' = HsfsAfterWrite(hsfs, HSFSTS_CLEAR)
    /\ wrote' = wrote \cup {"HSFS"}
    /\ log' = Append(log, "CLEAR")
    /\ pc' = "w_resample"
    /\ UNCHANGED <<fdv, faddr, hsfc_dbc, hsfc, fdata, flash, inflight, w1c, prompt,
                   callVars, xferVars, cycle_done, hsfsts, poll_i, waitFor, cyc, ret,
                   waitObs, cycles, observedIdle, goBeforeIdle, hwErr>>

\* The re-sample after the clear decides the result.
wait_resample ==
    /\ pc = "w_resample"
    /\ \E o \in SampleOutcomes : StatusRead(o)
    /\ cycle_done' = NoErrors(hsfsts')
    /\ log' = Append(log, "RESAMPLE")
    /\ pc' = "w_ret"
    /\ UNCHANGED <<callVars, xferVars, poll_i, waitFor, cyc, ret, waitObs, cycles,
                   goBeforeIdle, wrote>>

(* -------------------------- _send_spi_cycle -------------------------- *)
\* The value written to FADDR: spi_fla & PCH_RCBA_SPI_FADDR_MASK
FaddrValue(fla) == BitAnd(fla, PCH_RCBA_SPI_FADDR_MASK)

\* Variant: the byte count is written for every cycle kind.
DbcAlways(cmd) == TRUE

\* "if (HSFCTL_ERASE_CYCLE != hsfctl_spi_cycle_cmd)": the byte count is written
DbcWanted(cmd) == HSFCTL_ERASE_CYCLE # cmd

\* Variant: the chunk index is not scaled by the burst size.
ChunkFlaUnscaled(fla, k, d) == fla + k

\* The address of chunk k of a transfer at fla in bursts of d: spi_fla + i * dbc
\* (and spi_fla + n * dbc for the remainder).
ChunkFla(fla, k, d) == fla + k * d

\* The count field of a cycle of c bytes: dbc - 1, r - 1
CountField(c) == c - 1

\* The call _send_spi_cycle(cmd, d, fla).
StartSend(cmd, d, fla) ==
    /\ cyc' = [cmd |-> cmd, dbc |-> d, fla |-> fla]
    /\ pc' = "s_faddr"

\* spi_reg_write(faddr_off, spi_fla & PCH_RCBA_SPI_FADDR_MASK)
send_faddr ==
    /\ pc = "s_faddr"
    /\ faddr' = FaddrValue(cyc.fla)
    /\ wrote' = wrote \cup {"FADDR"}
    /\ log' = <<"FADDR">>
    /\ pc' = IF DbcWanted(cyc.cmd) THEN "s_dbc" ELSE "s_go"
    /\ UNCHANGED <<hsfs, fdv, hsfc_dbc, hsfc, fdata, flash, inflight, w1c, prompt,
                   callVars, xferVars, cycle_done, hsfsts, poll_i, waitFor, cyc, ret,
                   waitObs, cycles, observedIdle, goBeforeIdle, hwErr>>

\* spi_reg_write(hsfc_off + 0x1, dbc, 1)
send_dbc ==
    /\ pc = "s_dbc"
    /\ hsfc_dbc' = cyc.dbc
    /\ wrote' = wrote \cup {"HSFC_DBC"}
    /\ log' = Append(log, "DBC")
    /\ pc' = "s_go"
    /\ UNCHANGED <<hsfs, fdv, faddr, hsfc, fdata, flash, inflight, w1c, prompt,
                   callVars, xferVars, cycle_done, hsfsts, poll_i, waitFor, cyc, ret,
                   waitObs, cycles, observedIdle, goBeforeIdle, hwErr>>

\* The controller's side of a go write: the cycle named by the registers
\* starts; a backend that runs cycles at the go write completes it at once; a
\* go written over a cycle still in flight leaves either of the two running.
GoWrite(cmd) ==
    LET c == [kind |-> "engine",
              type |-> Shr(cmd, 1) % 8,
              addr |-> faddr,
              count |-> BitAnd(hsfc_dbc, 63) + 1]
    IN IF HasBit(hsfs, PCH_RCBA_SPI_HSFSTS_SCIP)
       THEN /\ inflight' \in {inflight, c}
            /\ UNCHANGED <<hsfs, fdata, flash>>
       ELSE IF prompt
       THEN /\ hsfs' = CompletedHsfs(hsfs, "ok")
            /\ fdata' = CompletedFdata(fdata, flash, c, "ok")
            /\ flash' = CompletedFlash(flash, fdata, c, "ok")
            /\ inflight' = NoCycle
       ELSE /\ hsfs' = BitOr(hsfs, PCH_RCBA_SPI_HSFSTS_SCIP)
            /\ inflight' = c
            /\ UNCHANGED <<fdata, flash>>

\* spi_reg_write(hsfc_off, hsfctl_spi_cycle_cmd, 1), then the call of the wait
send_go ==
    /\ pc = "s_go"
    /\ hsfc' = cyc.cmd
    /\ GoWrite(cyc.cmd)
    /\ wrote' = wrote \cup {"HSFC"}
    /\ log' = Append(log, "GO")
    /\ cycles' = Append(cycles, <<cyc.cmd, cyc.dbc, cyc.fla>>)
    /\ goBeforeIdle' = (goBeforeIdle \/ ~observedIdle)
    /\ observedIdle' = FALSE
    /\ hwErr' = FALSE
    /\ StartWait("send")
    /\ UNCHANGED <<fdv, faddr, hsfc_dbc, w1c, prompt, callVars, xferVars,
                   cycle_done, hsfsts, cyc, ret>>

(* ------------------------ check_hardware_sequencing ------------------ *)
\* Variant: the FDV test never raises.
HwSeqNeverDisabled == FALSE

\* "if fdv == 0: raise SpiRuntimeError"
HardwareSequencingDisabled == fdv = 0

\* The raise leaves the call at once.
RaiseSpiRuntimeError ==
    /\ pc' = "done"
    /\ ret' = [kind |-> "raise", err |-> "SpiRuntimeError"]
    /\ UNCHANGED <<hwVars, callVars, xferVars, cycle_done, hsfsts, poll_i, waitFor,
                   cyc, waitObs, log, cycles, observedIdle, goBeforeIdle, hwErr,
                   wrote>>

\* "return None" / "return value"
ReturnNone == ret' = [kind |-> "none"] /\ pc' = "done"
ReturnValue(v) == ret' = [kind |-> "value", val |-> v] /\ pc' = "done"

(* ------------------------------ read_spi ----------------------------- *)
\* dbc = SPI_READ_WRITE_DEF_DBC; if (data_byte_count >= MAX_DBC): dbc = MAX_DBC
ReadBurst(cnt) ==
    IF cnt >= SPI_READ_WRITE_MAX_DBC
    THEN SPI_READ_WRITE_MAX_DBC ELSE SPI_READ_WRITE_DEF_DBC

RECURSIVE DrainFull(_, _)
\* buf += struct.pack("I", dword_value) for fdata_idx in range(k)
DrainFull(fd, k) ==
    IF k = 0 THEN <<>> ELSE DrainFull(fd, k - 1) \o PackDword(fd[k - 1])

\* n_dwords = (r + 3) // 4
RemDwords(rem) == (rem + 3) \div 4

\* Variant: the last dword of the remainder is not truncated.
RemTakeWhole(rem, idx) == 4

\* t: 4, and r % 4 on the last dword when r is no multiple of 4
RemTake(rem, idx) ==
    IF idx = RemDwords(rem) - 1 /\ rem % 4 # 0 THEN rem % 4 ELSE 4

RECURSIVE DrainRem(_, _, _)
\* the remainder's drain over fdata_idx in range(k)
DrainRem(fd, rem, k) ==
    IF k = 0 THEN <<>>
    ELSE DrainRem(fd, rem, k - 1) \o LowBytes(fd[k - 1], RemTake(rem, k - 1))

read_spi_enter ==
    /\ pc = "enter"
    /\ op = "read_spi"
    /\ IF HardwareSequencingDisabled
       THEN RaiseSpiRuntimeError
       ELSE /\ buf' = <<>>
            /\ dbc' = ReadBurst(data_byte_count)
            /\ n' = data_byte_count \div dbc'
            /\ r' = data_byte_count % dbc'
            /\ i' = 0
            /\ log' = <<>>
            /\ StartWait("entry")
            /\ UNCHANGED <<hwVars, callVars, write_ok, cycle_done, hsfsts, cyc, ret,
                           cycles, observedIdle, goBeforeIdle, hwErr, wrote>>

EntryWaitNeverFails(done) == FALSE

\* "if not cycle_done:" after the wait before the first cycle
EntryWaitFailed(done) == ~done

\* The wait before the first cycle: "if not cycle_done: return None".
entry_wait_return ==
    /\ pc = "w_ret"
    /\ waitFor = "entry"
    /\ IF EntryWaitFailed(cycle_done)
       THEN ReturnNone
       ELSE pc' = "loop" /\ ret' = ret
    /\ UNCHANGED <<hwVars, callVars, xferVars, cycle_done, hsfsts, poll_i, waitFor,
                   cyc, waitObs, log, cycles, observedIdle, goBeforeIdle, hwErr,
                   wrote>>

SendReturned == pc = "w_ret" /\ waitFor = "send"

\* "for i in range(n)": the next full chunk's cycle
read_spi_chunk ==
    /\ pc = "loop"
    /\ op = "read_spi"
    /\ i < n
    /\ StartSend(HSFCTL_READ_CYCLE, CountField(dbc), ChunkFla(spi_fla, i, dbc))
    /\ UNCHANGED <<hwVars, callVars, xferVars, cycle_done, hsfsts, poll_i, waitFor,
                   ret, waitObs, log, cycles, observedIdle, goBeforeIdle, hwErr,
                   wrote>>

\* the chunk's cycle has returned: drain dbc // 4 slots unless it failed
read_spi_chunk_done ==
    /\ SendReturned
    /\ cyclesOk' = (cyclesOk /\ cycle_done)
    /\ op = "read_spi"
    /\ i < n
    /\ buf' = IF cycle_done THEN buf \o DrainFull(fdata, dbc \div 4) ELSE buf
    /\ i' = i + 1
    /\ pc' = "loop"
    /\ UNCHANGED <<hwVars, callArgs, dbc, n, r, write_ok, cycle_done, hsfsts, poll_i,
                   waitFor, cyc, ret, waitObs, log, cycles, observedIdle,
                   goBeforeIdle, hwErr, wrote>>

\* "if (0 != r)": the remainder's cycle
read_spi_rem ==
    /\ pc = "loop"
    /\ op = "read_spi"
    /\ i = n
    /\ IF 0 # r
       THEN /\ StartSend(HSFCTL_READ_CYCLE, CountField(r), ChunkFla(spi_fla, n, dbc))
            /\ ret' = ret
       ELSE /\ ReturnValue(buf)
            /\ cyc' = cyc
    /\ UNCHANGED <<hwVars, callVars, xferVars, cycle_done, hsfsts, poll_i, waitFor,
                   waitObs, log, cycles, observedIdle, goBeforeIdle, hwErr, wrote>>

\* the remainder's cycle has returned: drain, then "return buf"
read_spi_rem_done ==
    /\ SendReturned
    /\ cyclesOk' = (cyclesOk /\ cycle_done)
    /\ op = "read_spi"
    /\ i = n
    /\ buf' = IF cycle_done THEN buf \o DrainRem(fdata, r, RemDwords(r)) ELSE buf
    /\ ReturnValue(buf')
    /\ UNCHANGED <<hwVars, callArgs, dbc, n, r, i, write_ok, cycle_done, hsfsts,
                   poll_i, waitFor, cyc, waitObs, log, cycles, observedIdle,
                   goBeforeIdle, hwErr, wrote>>

(* ----------------------------- write_spi ----------------------------- *)
\* ord(buf[k]): the byte's value for a one-byte element; for an integer
\* element (buf is a bytes or bytearray object) ord() raises TypeError.
OrdRaises(kind) == kind = "bytes"

\* TypeError out of write_spi: raised before the dword reaches FDATA0.
RaiseTypeError ==
    /\ pc' = "done"
    /\ ret' = [kind |-> "raise", err |-> "TypeError"]

\* (ord(buf[i*dbc + 3]) << 24) | (ord(buf[i*dbc + 2]) << 16)
\*     | (ord(buf[i*dbc + 1]) << 8) | ord(buf[i*dbc])      (buf is 0-based)
ChunkDword(b, k, d) ==
    DwordOr(DwordOr(ByteShl(b[k * d + 3 + 1], 3), ByteShl(b[k * d + 2 + 1], 2)),
            DwordOr(ByteShl(b[k * d + 1 + 1], 1), ByteShl(b[k * d + 1], 0)))

\* Variant: only the last burst's outcome is kept.
WriteOkLast(ok, done) == done

\* "if not self._send_spi_cycle(...): write_ok = False"
WriteOkAfter(ok, done) == ok /\ done

RECURSIVE RemDword(_, _, _)
\* for j in range(r): dword_value |= (ord(buf[n*dbc + j]) << 8*j)
RemDword(b, base, k) ==
    IF k = 0 THEN ZeroDword
    ELSE DwordOr(RemDword(b, base, k - 1), ByteShl(b[base + (k - 1) + 1], k - 1))

write_spi_enter ==
    /\ pc = "enter"
    /\ op = "write_spi"
    /\ IF HardwareSequencingDisabled
       THEN RaiseSpiRuntimeError
       ELSE /\ write_ok' = TRUE
            /\ dbc' = WRITE_DBC
            /\ n' = Len(wbuf) \div dbc'
            /\ r' = Len(wbuf) % dbc'
            /\ i' = 0
            /\ log' = <<>>
            /\ StartWait("entry")
            /\ UNCHANGED <<hwVars, callVars, buf, cycle_done, hsfsts, cyc, ret,
                           cycles, observedIdle, goBeforeIdle, hwErr, wrote>>

\* "for i in range(n)": FDATA0 <- the chunk's dword, then its cycle
write_spi_chunk ==
    /\ pc = "loop"
    /\ op = "write_spi"
    /\ i < n
    /\ IF OrdRaises(bufKind)
       THEN /\ RaiseTypeError
            /\ UNCHANGED <<fdata, wrote, cyc>>
       ELSE /\ fdata' = [fdata EXCEPT ![0] = ChunkDword(wbuf, i, dbc)]
            /\ wrote' = wrote \cup {"FDATA0"}
            /\ StartSend(HSFCTL_WRITE_CYCLE, CountField(dbc),
                         ChunkFla(spi_fla, i, dbc))
            /\ ret' = ret
    /\ UNCHANGED <<hsfs, fdv, faddr, hsfc_dbc, hsfc, flash, inflight, w1c, prompt,
                   callVars, xferVars, cycle_done, hsfsts, poll_i, waitFor,
                   waitObs, log, cycles, observedIdle, goBeforeIdle, hwErr>>

\* the chunk's cycle has returned: "if not ...: write_ok = False"
write_spi_chunk_done ==
    /\ SendReturned
    /\ cyclesOk' = (cyclesOk /\ cycle_done)
    /\ op = "write_spi"
    /\ i < n
    /\ write_ok' = WriteOkAfter(write_ok, cycle_done)
    /\ i' = i + 1
    /\ pc' = "loop"
    /\ UNCHANGED <<hwVars, callArgs, buf, dbc, n, r, cycle_done, hsfsts, poll_i,
                   waitFor, cyc, ret, waitObs, log, cycles, observedIdle,
                   goBeforeIdle, hwErr, wrote>>

\* "if (0 != r)": FDATA0 <- the remaining bytes, then their cycle
write_spi_rem ==
    /\ pc = "loop"
    /\ op = "write_spi"
    /\ i = n
    /\ IF 0 # r
       THEN IF OrdRaises(bufKind)
            THEN /\ RaiseTypeError
                 /\ UNCHANGED <<fdata, wrote, cyc>>
            ELSE /\ fdata' = [fdata EXCEPT ![0] = RemDword(wbuf, n * dbc, r)]
                 /\ wrote' = wrote \cup {"FDATA0"}
                 /\ StartSend(HSFCTL_WRITE_CYCLE, CountField(r),
                              ChunkFla(spi_fla, n, dbc))
                 /\ ret' = ret
       ELSE /\ ReturnValue(write_ok)
            /\ UNCHANGED <<fdata, wrote, cyc>>
    /\ UNCHANGED <<hsfs, fdv, faddr, hsfc_dbc, hsfc, flash, inflight, w1c, prompt,
                   callVars, xferVars, cycle_done, hsfsts, poll_i, waitFor,
                   waitObs, log, cycles, observedIdle, goBeforeIdle, hwErr>>

\* the remainder's cycle has returned: "return write_ok"
write_spi_rem_done ==
    /\ SendReturned
    /\ cyclesOk' = (cyclesOk /\ cycle_done)
    /\ op = "write_spi"
    /\ i = n
    /\ write_ok' = WriteOkAfter(write_ok, cycle_done)
    /\ ReturnValue(write_ok')
    /\ UNCHANGED <<hwVars, callArgs, buf, dbc, n, r, i, cycle_done, hsfsts, poll_i,
                   waitFor, cyc, waitObs, log, cycles, observedIdle, goBeforeIdle,
                   hwErr, wrote>>

(* --------------------------- erase_spi_block ------------------------- *)
\* Variant: the erase is reported done whatever its cycle returned.
EraseOkAlways(done) == TRUE

\* erase_ok = self._send_spi_cycle(...); return erase_ok
EraseOk(done) == done

erase_spi_block_enter ==
    /\ pc = "enter"
    /\ op = "erase_spi_block"
    /\ IF HardwareSequencingDisabled
       THEN RaiseSpiRuntimeError
       ELSE /\ log' = <<>>
            /\ StartWait("entry")
            /\ UNCHANGED <<hwVars, callVars, xferVars, cycle_done, hsfsts, cyc, ret,
                           cycles, observedIdle, goBeforeIdle, hwErr, wrote>>

\* erase_ok = self._send_spi_cycle(HSFCTL_ERASE_CYCLE, 0, spi_fla)
erase_spi_block_cycle ==
    /\ pc = "loop"
    /\ op = "erase_spi_block"
    /\ StartSend(HSFCTL_ERASE_CYCLE, 0, spi_fla)
    /\ UNCHANGED <<hwVars, callVars, xferVars, cycle_done, hsfsts, poll_i, waitFor,
                   ret, waitObs, log, cycles, observedIdle, goBeforeIdle, hwErr,
                   wrote>>

\* "return erase_ok"
erase_spi_block_done ==
    /\ SendReturned
    /\ cyclesOk' = (cyclesOk /\ cycle_done)
    /\ op = "erase_spi_block"
    /\ ReturnValue(EraseOk(cycle_done))
    /\ UNCHANGED <<hwVars, callArgs, xferVars, cycle_done, hsfsts, poll_i, waitFor,
                   cyc, waitObs, log, cycles, observedIdle, goBeforeIdle, hwErr,
                   wrote>>

(* -------------------------- get_SPI_JEDEC_ID ------------------------- *)
\* Variant: the identity is returned as the data window holds it.
JedecValueNoSwap(id) == DwordAnd(id, <<255, 255, 255, 0>>)

\* ((id & 0xFF) << 16) | (id & 0xFF00) | ((id >> 16) & 0xFF)
JedecValue(id) ==
    DwordOr(DwordOr(DwordShlBytes(DwordAnd(id, <<255, 0, 0, 0>>), 2),
                    DwordAnd(id, <<0, 255, 0, 0>>)),
            DwordAnd(DwordShrBytes(id, 2), <<255, 0, 0, 0>>))

\* "if register_has_field('HSFS', 'FCYCLE'): check_hardware_sequencing();
\*  _send_spi_cycle(HSFCTL_JEDEC_CYCLE, 4, 0) ... else: return False"
get_SPI_JEDEC_ID_enter ==
    /\ pc = "enter"
    /\ op = "get_SPI_JEDEC_ID"
    /\ IF ~has_fcycle
       THEN /\ ReturnValue(FALSE)
            /\ UNCHANGED <<hwVars, callVars, xferVars, cycle_done, hsfsts, poll_i,
                           waitFor, cyc, waitObs, log, cycles, observedIdle,
                           goBeforeIdle, hwErr, wrote>>
       ELSE IF HardwareSequencingDisabled
       THEN RaiseSpiRuntimeError
       ELSE /\ StartSend(HSFCTL_JEDEC_CYCLE, 4, 0)
            /\ UNCHANGED <<hwVars, callVars, xferVars, cycle_done, hsfsts, poll_i,
                           waitFor, ret, waitObs, log, cycles, observedIdle,
                           goBeforeIdle, hwErr, wrote>>

\* the cycle has returned: "if not ...: logger.error(...)", then
\* "id = self.spi_reg_read(self.fdata0_off)" and the return of the reordered id
get_SPI_JEDEC_ID_done ==
    /\ SendReturned
    /\ op = "get_SPI_JEDEC_ID"
    /\ cyclesOk' = (cyclesOk /\ cycle_done)
    /\ fdataReads' = Append(fdataReads, 0)
    /\ ReturnValue(JedecValue(fdata[0]))
    /\ UNCHANGED <<hwVars, callIn, idIn, sfdpLocals, ptlog, xferVars, cycle_done,
                   hsfsts, poll_i, waitFor, cyc, waitObs, log, cycles,
                   observedIdle, goBeforeIdle, hwErr, wrote>>

(* ---------------------------- get_SPI_SFDP --------------------------- *)
\* ptmesg(offset): BIOS_PTINX <- offset, then the dword BIOS_PTDATA returns.
\* Index 0 of a component holds its signature, index 4 the version dword
\* (header count minus one in bits 16-23), index 0x1000 the first parameter
\* header (table length in bits 24-31); the rest is table content.
PtData(off) ==
    LET c == off \div 16384
        o == off % 16384
    IN CASE o = 0 -> sfdp.sig[c + 1]
         [] o = 4 -> <<6, 1, sfdp.nph, 255>>
         [] o = 4096 -> <<0, 6, 1, sfdp.len>>
         [] OTHER -> <<o % 256, (o \div 256) % 256, c, 0>>

\* (d >> sh) & 0xFF, for sh a multiple of 8
ByteField(d, sh) == ByteOf(d, sh \div 8)

\* Variant: every component is taken to hold an SFDP header.
SignatureAlways(sig) == TRUE

\* "if sfdp_signature == SFDP_HEADER"
SignatureFound(sig) == sig = SFDP_HEADER

\* num_of_param_headers = ((sfdp_data >> 16) & 0xFF) + 1
NumOfParamHeaders(d) == ByteField(d, 16) + 1

\* Variant: every slot number names a data register.
SlotExistsAlways(k) == TRUE

\* eval("self.fdata<k>_off"): the attributes fdata0_off .. fdata15_off exist;
\* any other raises AttributeError.
SlotExists(k) == k < FDATA_SLOTS

\* offset = (component << 14) | 0x2000
TableOffset(c) == BitOr(Shl(c, 14), 8192)

\* "ret = False", before the loop over the components
get_SPI_SFDP_enter ==
    /\ pc = "enter"
    /\ op = "get_SPI_SFDP"
    /\ sfdp_ret' = FALSE
    /\ component' = 0
    /\ pc' = "f_scan"
    /\ UNCHANGED <<hwVars, callIn, cyclesOk, idIn, offset, num_of_param_headers,
                   param1_length, count, ptlog, fdataReads, xferVars, cycle_done,
                   hsfsts, poll_i, waitFor, cyc, ret, waitObs, log, cycles,
                   observedIdle, goBeforeIdle, hwErr, wrote>>

\* One pass of "for component in range(0, 2)" up to the SFDP cycle: the
\* signature, and for a component that has it the version dword and the first
\* parameter header; "return ret" after the last component.
sfdp_scan ==
    /\ pc = "f_scan"
    /\ op = "get_SPI_SFDP"
    /\ UNCHANGED <<hsfs, fdv, faddr, hsfc_dbc, hsfc, flash, inflight, w1c, prompt,
                   callIn, cyclesOk, idIn, fdataReads, xferVars, cycle_done,
                   hsfsts, poll_i, waitFor, waitObs, log, cycles, observedIdle,
                   goBeforeIdle, hwErr>>
    /\ IF component = 2
       THEN /\ ReturnValue(sfdp_ret)
            /\ UNCHANGED <<fdata, sfdpLocals, ptlog, cyc, wrote>>
       ELSE LET off0 == Shl(component, 14)
                off1 == BitOr(off0, 4096)
                num == NumOfParamHeaders(PtData(off0 + 4))
            IN IF ~SignatureFound(PtData(off0))
               THEN /\ ptlog' = Append(ptlog, off0)
                    /\ offset' = off0
                    /\ component' = component + 1
                    /\ pc' = "f_scan"
                    /\ wrote' = wrote \cup {"BIOS_PTINX"}
                    /\ UNCHANGED <<fdata, num_of_param_headers, param1_length,
                                   count, sfdp_ret, cyc, ret>>
               ELSE /\ ptlog' = ptlog \o <<off0, off0 + 4, off1>>
                    /\ sfdp_ret' = TRUE
                    /\ num_of_param_headers' = num
                    /\ param1_length' = ByteField(PtData(off1), 24)
                    /\ UNCHANGED <<component>>
                    /\ IF num > 1 /\ has_fcycle
                       THEN IF HardwareSequencingDisabled
                            THEN /\ pc' = "done"
                                 /\ ret' = [kind |-> "raise",
                                            err |-> "SpiRuntimeError"]
                                 /\ offset' = off1
                                 /\ wrote' = wrote \cup {"BIOS_PTINX"}
                                 /\ UNCHANGED <<fdata, count, cyc>>
                            ELSE /\ fdata' = [fdata EXCEPT ![12] = ZeroDword,
                                                           ![13] = ZeroDword,
                                                           ![14] = ZeroDword,
                                                           ![15] = ZeroDword]
                                 /\ wrote' = wrote \cup {"BIOS_PTINX", "FDATA12",
                                                 "FDATA13", "FDATA14", "FDATA15"}
                                 /\ StartSend(HSFCTL_SFDP_CYCLE, 63, 0)
                                 /\ offset' = off1
                                 /\ UNCHANGED <<count, ret>>
                       ELSE /\ pc' = "f_table"
                            /\ offset' = TableOffset(component)
                            /\ count' = 1
                            /\ wrote' = wrote \cup {"BIOS_PTINX"}
                            /\ UNCHANGED <<fdata, cyc, ret>>

\* the SFDP cycle has returned: "if not ...: continue", else the header walk
sfdp_cycle_done ==
    /\ SendReturned
    /\ op = "get_SPI_SFDP"
    /\ cyclesOk' = (cyclesOk /\ cycle_done)
    /\ IF ~cycle_done
       THEN /\ component' = component + 1
            /\ pc' = "f_scan"
            /\ i' = i
       ELSE /\ i' = 1
            /\ pc' = "f_walk"
            /\ component' = component
    /\ UNCHANGED <<hwVars, callIn, idIn, offset, num_of_param_headers,
                   param1_length, count, sfdp_ret, ptlog, fdataReads, buf, dbc,
                   n, r, write_ok, cycle_done, hsfsts, poll_i, waitFor, cyc, ret,
                   waitObs, log, cycles, observedIdle, goBeforeIdle, hwErr, wrote>>

\* One pass of "for i in range(1, num_of_param_headers)": the two data
\* registers fdata<2+2i> and fdata<2+2i+1> are looked up by name and read;
\* after the loop the table offset is set.
sfdp_param_header ==
    /\ pc = "f_walk"
    /\ op = "get_SPI_SFDP"
    /\ UNCHANGED <<hwVars, callIn, cyclesOk, idIn, component,
                   num_of_param_headers, param1_length, sfdp_ret, ptlog, buf,
                   dbc, n, r, write_ok, cycle_done, hsfsts, poll_i, waitFor, cyc,
                   waitObs, log, cycles, observedIdle, goBeforeIdle, hwErr, wrote>>
    /\ IF i < num_of_param_headers
       THEN IF ~SlotExists(2 + (2 * i))
            THEN /\ pc' = "done"
                 /\ ret' = [kind |-> "raise", err |-> "AttributeError"]
                 /\ UNCHANGED <<fdataReads, i, offset, count>>
            ELSE IF ~SlotExists(2 + (2 * i) + 1)
            THEN /\ pc' = "done"
                 /\ ret' = [kind |-> "raise", err |-> "AttributeError"]
                 /\ fdataReads' = Append(fdataReads, 2 + (2 * i))
                 /\ UNCHANGED <<i, offset, count>>
            ELSE /\ fdataReads' = fdataReads \o <<2 + (2 * i), 2 + (2 * i) + 1>>
                 /\ i' = i + 1
                 /\ pc' = "f_walk"
                 /\ UNCHANGED <<ret, offset, count>>
       ELSE /\ pc' = "f_table"
            /\ offset' = TableOffset(component)
            /\ count' = 1
            /\ UNCHANGED <<fdataReads, i, ret>>

\* One pass of "for count in range(1, param1_length + 1)": ptmesg(offset),
\* offset += 4; after the loop the next component.
sfdp_table_dword ==
    /\ pc = "f_table"
    /\ op = "get_SPI_SFDP"
    /\ IF count <= param1_length
       THEN /\ ptlog' = Append(ptlog, offset)
            /\ offset' = offset + 4
            /\ count' = count + 1
            /\ pc' = "f_table"
            /\ component' = component
       ELSE /\ component' = component + 1
            /\ pc' = "f_scan"
            /\ UNCHANGED <<ptlog, offset, count>>
    /\ UNCHANGED <<hwVars, callIn, cyclesOk, idIn, num_of_param_headers,
                   param1_length, sfdp_ret, fdataReads, xferVars, cycle_done,
                   hsfsts, poll_i, waitFor, cyc, ret, waitObs, log, cycles,
                   observedIdle, goBeforeIdle, hwErr, wrote>>

(* --------------------- parse_spi_flash_descriptor -------------------- *)
RECURSIVE Find(_, _, _)
\* rom.find(sub): the lowest offset, from p on, at which sub occurs; -1 if none
Find(s, sub, p) ==
    IF p + Len(sub) > Len(s) THEN -1
    ELSE IF SubSeq(s, p + 1, p + Len(sub)) = sub THEN p
    ELSE Find(s, sub, p + 1)

\* A slice bound as Python takes it: negative bounds count from the end, and
\* every bound is clipped to 0 .. len.
SliceBound(len, b) ==
    LET c == IF b < 0 THEN b + len ELSE b
    IN IF c < 0 THEN 0 ELSE IF c > len THEN len ELSE c

\* s[lo:hi]
Slice(s, lo, hi) == SubSeq(s, SliceBound(Len(s), lo) + 1, SliceBound(Len(s), hi))

\* Variant: any offset find returns is taken.
PosFoundAnywhere(p) == -1 # p

\* "if (-1 == pos or pos < 0x10): ... return None", negated
PosValid(p) == ~(-1 = p \/ p < SIGNATURE_OFFSET)

\* The dwords unpacked at lines 877-887, in order: name and offset in fd.
FdFields == <<<<"fd_sig", 16>>, <<"flmap0", 20>>, <<"flmap1", 24>>, <<"flmap2", 28>>>>

\* struct.unpack_from('=I', b)[0] raises struct.error on fewer than 4 bytes.
UnpackRaises(b) == Len(b) < 4

\* struct.unpack_from('=I', b)[0]: the first four bytes, least significant first
UnpackDword(b) == <<b[1], b[2], b[3], b[4]>>

\* The type test, rom.find, the test of pos, and the slice of the descriptor.
parse_spi_flash_descriptor_enter ==
    /\ pc = "enter"
    /\ op = "parse_spi_flash_descriptor"
    /\ IF romKind \notin {"str", "bytes"}
       THEN /\ ReturnNone
            /\ UNCHANGED <<pos, fd_off, fdesc>>
       ELSE /\ pos' = Find(rom, SPI_FLASH_DESCRIPTOR_SIGNATURE, 0)
            /\ IF ~PosValid(pos')
               THEN /\ ReturnNone
                    /\ UNCHANGED <<fd_off, fdesc>>
               ELSE /\ fd_off' = pos' - SIGNATURE_OFFSET
                    /\ fdesc' = Slice(rom, fd_off', fd_off' + SPI_FLASH_DESCRIPTOR_SIZE)
                    /\ pc' = "p_unpack"
                    /\ ret' = ret
    /\ UNCHANGED <<hwVars, cfgVars, lockVars, op, spi_fla, data_byte_count, wbuf, bufKind, secondCall,
                   written, cyclesOk, idVars, rom, romKind, decoded, sectVars,
                   xferVars,
                   cycle_done, hsfsts, poll_i, waitFor, cyc, waitObs, log, cycles,
                   observedIdle, goBeforeIdle, hwErr, wrote>>

\* The next dword of the descriptor map: fd[o:o + 4] unpacked; after FLMAP2
\* the map's fields are decoded (line 888 on).
parse_unpack ==
    /\ pc = "p_unpack"
    /\ op = "parse_spi_flash_descriptor"
    /\ LET f == FdFields[Len(decoded) + 1]
           b == Slice(fdesc, f[2], f[2] + 4)
       IN IF UnpackRaises(b)
          THEN /\ pc' = "done"
               /\ ret' = [kind |-> "raise", err |-> "struct.error"]
               /\ UNCHANGED decoded
          ELSE /\ decoded' = Append(decoded, <<f[1], UnpackDword(b)>>)
               /\ pc' = IF Len(decoded') = Len(FdFields) THEN "p_map" ELSE "p_unpack"
               /\ ret' = ret
    /\ UNCHANGED <<hwVars, cfgVars, lockVars, op, spi_fla, data_byte_count, wbuf, bufKind, secondCall,
                   written, cyclesOk, idVars, rom, romKind, pos, fd_off, fdesc,
                   sectVars, xferVars, cycle_done, hsfsts, poll_i, waitFor, cyc, waitObs,
                   log, cycles, observedIdle, goBeforeIdle, hwErr, wrote>>

(* ------------- descriptor map and sections (lines 892 on) ------------ *)
\* cs.get_register_field(name, d, field) for a field of w bits from bit lo
\* that lies in bits 0-30 or in bits 16-31: (d >> lo) & (2^w - 1)
GetField(d, lo, w) ==
    LET lo16 == d[1] + 256 * d[2]
        hi16 == d[3] + 256 * d[4]
    IN IF lo >= 16 THEN Shr(hi16, lo - 16) % Pow2(w)
       ELSE Shr(lo16 + 65536 * (hi16 % 32768), lo) % Pow2(w)

\* The field layouts of the platform configuration: <<first bit, width>>.
FieldLayout ==
    [FCBA |-> <<0, 8>>, NC |-> <<8, 2>>, FRBA |-> <<16, 8>>, NR |-> <<24, 3>>,
     FMBA |-> <<0, 8>>, NM |-> <<8, 3>>,
     RB |-> <<0, 15>>, RL |-> <<16, 15>>,
     MRRA |-> <<16, 8>>, MRWA |-> <<24, 8>>,
     PRB |-> <<0, 13>>, RPE |-> <<15, 1>>, PRL |-> <<16, 13>>, WPE |-> <<31, 1>>]

\* cs.get_register_field(<register>, d, f)
Field(d, f) == GetField(d, FieldLayout[f][1], FieldLayout[f][2])

\* The dword named f among those unpacked at lines 877-887.
Decoded(f) == (CHOOSE e \in {decoded[k] : k \in 1..Len(decoded)} : e[1] = f)[2]

\* Variant: a short buffer is padded with zero bytes, as int.from_bytes does.
unpack_padded(b) ==
    [raises |-> FALSE,
     val |-> [k \in 1..4 |-> IF k <= Len(b) THEN b[k] ELSE 0]]

\* struct.unpack_from('=I', b)[0], or its struct.error
unpack_from(b) ==
    IF UnpackRaises(b) THEN [raises |-> TRUE, val |-> ZeroDword]
    ELSE [raises |-> FALSE, val |-> UnpackDword(b)]

\* struct.error leaves parse_spi_flash_descriptor
RaiseStructError ==
    /\ pc' = "done"
    /\ ret' = [kind |-> "raise", err |-> "struct.error"]

\* What the parser's steps after the descriptor map leave alone.
sectFrame ==
    <<hwVars, cfgVars, lockVars, op, spi_fla, data_byte_count, wbuf, bufKind, secondCall, written,
      cyclesOk, idVars, rom, romKind, pos, fd_off, fdesc, has_nr, flreg_defs,
      xferVars, cycle_done, hsfsts, poll_i, waitFor, cyc, waitObs, log, cycles,
      observedIdle, goBeforeIdle, hwErr, wrote>>

\* Lines 892-927: the bases and counts of the map. nr is SPI_REGION_NUMBER_IN_FD
\* unless FLMAP0 has the NR field; nc and the strap fields are only logged.
parse_map ==
    /\ pc = "p_map"
    /\ op = "parse_spi_flash_descriptor"
    /\ fcba' = Shl(Field(Decoded("flmap0"), "FCBA"), 4)
    /\ frba' = Shl(Field(Decoded("flmap0"), "FRBA"), 4)
    /\ nr' = IF has_nr THEN Field(Decoded("flmap0"), "NR") + 1
             ELSE SPI_REGION_NUMBER_IN_FD
    /\ fmba' = Shl(Field(Decoded("flmap1"), "FMBA"), 4)
    /\ nm' = Field(Decoded("flmap1"), "NM")
    /\ sect_idx' = 0
    /\ pc' = "p_comp"
    /\ UNCHANGED <<sectFrame, ret, decoded, flregs, flmstrs, sectReads>>

\* The dwords of the component section, in order: name and offset from fcba.
ComponentFields == <<<<"flcomp", 0>>, <<"flil", 4>>, <<"flpb", 8>>>>

\* Lines 936-941: the next dword of the component section; after FLPB,
\* "flregs = [None] * nr".
parse_component ==
    /\ pc = "p_comp"
    /\ op = "parse_spi_flash_descriptor"
    /\ LET f == ComponentFields[sect_idx + 1]
           o == fcba + f[2]
           u == unpack_from(Slice(fdesc, o, o + 4))
       IN IF u.raises
          THEN /\ RaiseStructError
               /\ UNCHANGED <<decoded, sectReads, sect_idx, flregs>>
          ELSE /\ decoded' = Append(decoded, <<f[1], u.val>>)
               /\ sectReads' = Append(sectReads, o)
               /\ ret' = ret
               /\ IF sect_idx + 1 = Len(ComponentFields)
                  THEN /\ pc' = "p_reg"
                       /\ sect_idx' = 0
                       /\ flregs' = [k \in 1..nr |-> [set |-> FALSE]]
                  ELSE /\ pc' = "p_comp"
                       /\ sect_idx' = sect_idx + 1
                       /\ flregs' = flregs
    /\ UNCHANGED <<sectFrame, fcba, frba, nr, fmba, nm, flmstrs>>

\* Variant: only base > limit marks a region.
NotUsedByOrderOnly(flreg, base, limit) ==
    IF base > limit THEN "(not used)" ELSE ""

\* '(not used)' if base > limit or flreg == 0xFFFFFFFF else ''
NotUsed(flreg, base, limit) ==
    IF base > limit \/ flreg = <<255, 255, 255, 255>> THEN "(not used)" ELSE ""

\* Lines 956-959: the tuple stored for a region dword.
FlregEntry(flreg) ==
    LET base == Shl(Field(flreg, "RB"), SPI_FLA_SHIFT)
        limit == Shl(Field(flreg, "RL"), SPI_FLA_SHIFT)
    IN [set |-> TRUE, flreg |-> flreg, base |-> base, limit |-> limit,
        notused |-> NotUsed(flreg, base, limit)]

\* Lines 950-960: one turn of "for r in range(nr)"; after the loop (and the
\* region table, which is only logged) "flmstrs = [None] * nm".
parse_region ==
    /\ pc = "p_reg"
    /\ op = "parse_spi_flash_descriptor"
    /\ IF sect_idx < nr
       THEN LET flreg_off == frba + sect_idx * 4
                u == unpack_from(Slice(fdesc, flreg_off, flreg_off + 4))
            IN IF u.raises
               THEN /\ RaiseStructError
                    /\ UNCHANGED <<sectReads, sect_idx, flregs, flmstrs>>
               ELSE /\ sectReads' = Append(sectReads, flreg_off)
                    /\ flregs' = IF sect_idx \in flreg_defs
                                 THEN [flregs EXCEPT ![sect_idx + 1] = FlregEntry(u.val)]
                                 ELSE flregs
                    /\ sect_idx' = sect_idx + 1
                    /\ pc' = "p_reg"
                    /\ UNCHANGED <<ret, flmstrs>>
       ELSE /\ pc' = "p_mstr"
            /\ sect_idx' = 0
            /\ flmstrs' = [k \in 1..nm |-> [set |-> FALSE]]
            /\ UNCHANGED <<ret, sectReads, flregs>>
    /\ UNCHANGED <<sectFrame, decoded, fcba, frba, nr, fmba, nm>>

\* Lines 978-985: one turn of "for m in range(nm)"; the access table that
\* follows the loop is only logged.
parse_master ==
    /\ pc = "p_mstr"
    /\ op = "parse_spi_flash_descriptor"
    /\ IF sect_idx < nm
       THEN LET flmstr_off == fmba + sect_idx * 4
                u == unpack_from(Slice(fdesc, flmstr_off, flmstr_off + 4))
            IN IF u.raises
               THEN /\ RaiseStructError
                    /\ UNCHANGED <<sectReads, sect_idx, flmstrs>>
               ELSE /\ sectReads' = Append(sectReads, flmstr_off)
                    /\ flmstrs' = [flmstrs EXCEPT ![sect_idx + 1] =
                                      [set |-> TRUE,
                                       ra |-> Field(u.val, "MRRA"),
                                       wa |-> Field(u.val, "MRWA")]]
                    /\ sect_idx' = sect_idx + 1
                    /\ pc' = "p_mstr"
                    /\ ret' = ret
       ELSE /\ pc' = "p_umap"
            /\ UNCHANGED <<ret, sectReads, sect_idx, flmstrs>>
    /\ UNCHANGED <<sectFrame, decoded, fcba, frba, nr, fmba, nm, flregs>>

\* Lines 1017-1035: FLUMAP1 at 0xEFC, the OEM section printed, and the end of
\* the function, which returns None.
parse_upper_map ==
    /\ pc = "p_umap"
    /\ op = "parse_spi_flash_descriptor"
    /\ LET u == unpack_from(Slice(fdesc, 3836, 3840))
       IN IF u.raises
          THEN RaiseStructError /\ UNCHANGED decoded
          ELSE ReturnNone /\ decoded' = Append(decoded, <<"flumap1", u.val>>)
    /\ UNCHANGED <<sectFrame, fcba, frba, nr, fmba, nm, flregs, flmstrs, sect_idx,
                   sectReads>>

(* ------------------------- write, then read -------------------------- *)
\* The caller reads back what it wrote: read_spi(spi_fla, len(buf)) after
\* write_spi(spi_fla, buf) has returned.
read_back ==
    /\ pc = "done"
    /\ op = "write_spi"
    /\ ret.kind = "value"
    /\ ~secondCall
    /\ secondCall' = TRUE
    /\ written' = [fla |-> spi_fla, bytes |-> wbuf, ok |-> ret.val]
    /\ op' = "read_spi"
    /\ pc' = "enter"
    /\ buf' = <<>> /\ dbc' = 0 /\ n' = 0 /\ r' = 0 /\ i' = 0 /\ write_ok' = TRUE
    /\ ret' = [kind |-> "pending"]
    /\ log' = <<>> /\ cycles' = <<>> /\ wrote' = {} /\ cyclesOk' = TRUE
    /\ goBeforeIdle' = FALSE
    /\ UNCHANGED <<hwVars, cfgVars, lockVars, spi_fla, data_byte_count, wbuf, bufKind, cycle_done,
                   hsfsts, poll_i, waitFor, cyc, waitObs, observedIdle, hwErr,
                   idVars, fdVars>>

(* --------------------------- specification --------------------------- *)
Next ==
    \/ read_spi_enter
    \/ write_spi_enter
    \/ erase_spi_block_enter
    \/ entry_wait_return
    \/ wait_poll
    \/ wait_sleep
    \/ wait_sample
    \/ wait_clear
    \/ wait_resample
    \/ send_faddr
    \/ send_dbc
    \/ send_go
    \/ read_spi_chunk
    \/ read_spi_chunk_done
    \/ read_spi_rem
    \/ read_spi_rem_done
    \/ write_spi_chunk
    \/ write_spi_chunk_done
    \/ write_spi_rem
    \/ write_spi_rem_done
    \/ erase_spi_block_cycle
    \/ erase_spi_block_done

Spec == Init /\ [][Next]_vars

\* Transfer lengths and addresses of the data-path specification.
XferLengths == {0, 1, 3, 4, 63, 64, 65, 127, 128}
XferAddrs == {0, 5, PCH_RCBA_SPI_FADDR_MASK - 1, PCH_RCBA_SPI_FADDR_MASK + 7}

\* A call, and after a write_spi the read of the same range, over a
\* register backend that runs each cycle at its go write; the backend is found
\* idle, or stuck busy.
InitXfer ==
    /\ \E h \in {0, PCH_RCBA_SPI_HSFSTS_SCIP} : InitHw(h, 1, TRUE, TRUE)
    /\ \E o \in Ops, a \in XferAddrs, len \in XferLengths, seed \in 0..MaxSeed :
          /\ (o = "erase_spi_block" => len = 0)
          /\ (o # "write_spi" \/ len = 0 => seed = 0)
          /\ \E kind \in BufKinds :
                /\ (o # "write_spi" => kind = "chars")
                /\ InitCall(o, a, len, seed, kind)

NextXfer == Next \/ read_back

SpecXfer == InitXfer /\ [][NextXfer]_vars

(* ------------------------- identity readers -------------------------- *)
IdOps == {"get_SPI_JEDEC_ID", "get_SPI_SFDP"}

\* Raw identities: 0x00124001, one with a nonzero top byte, all ones.
JedecIds == {<<1, 64, 18, 0>>, <<239, 64, 24, 171>>, <<255, 255, 255, 255>>}

\* Signature dwords of the two components: present or not on either.
SigPairs ==
    {<<SFDP_HEADER, SFDP_HEADER>>, <<SFDP_HEADER, <<83, 70, 68, 0>>>>,
     <<<<255, 255, 255, 255>>, SFDP_HEADER>>, <<ZeroDword, <<255, 255, 255, 255>>>>}

\* Bits 16-23 of the version dword: every value over a backend that runs each
\* cycle at its go write, the values around the window's end otherwise.
HeaderCountBytes(p) == IF p THEN 0..255 ELSE {0, 1, 6, 7}

\* One call of get_SPI_JEDEC_ID or get_SPI_SFDP, on a controller that runs
\* its cycles asynchronously or at the go write.
InitId ==
    /\ \E p \in BOOLEAN, v \in {0, 1}, w \in BOOLEAN :
          /\ (p => v = 1 /\ w)
          /\ InitHw(0, v, w, p)
    /\ \E f \in BOOLEAN :
          \/ \E j \in JedecIds :
                /\ CallBase("get_SPI_JEDEC_ID", 0, 0, 0, "chars")
                /\ InitIdentity(f, j, NoSfdp)
                /\ NoParse
                /\ NoCfg
                /\ NoLock
          \/ \E sg \in SigPairs, nb \in HeaderCountBytes(prompt),
                ln \in 0..MaxTable :
                /\ CallBase("get_SPI_SFDP", 0, 0, 0, "chars")
                /\ InitIdentity(f, ZeroDword, [sig |-> sg, nph |-> nb, len |-> ln])
                /\ NoParse
                /\ NoCfg
                /\ NoLock

NextId ==
    \/ get_SPI_JEDEC_ID_enter
    \/ get_SPI_JEDEC_ID_done
    \/ get_SPI_SFDP_enter
    \/ sfdp_scan
    \/ sfdp_cycle_done
    \/ sfdp_param_header
    \/ sfdp_table_dword
    \/ send_faddr
    \/ send_dbc
    \/ send_go
    \/ wait_poll
    \/ wait_sleep
    \/ wait_sample
    \/ wait_clear
    \/ wait_resample

SpecId == InitId /\ [][NextId]_vars

(* ------------------------- descriptor images ------------------------- *)
\* Image bytes around the signature: neighbours differ by 5, so no filler
\* run spells the signature.
Filler(k) == (3 + 5 * k) % 251

\* An image with the signature at offset p (none if p = -1) and t bytes after it.
Image(p, t) ==
    IF p = -1 THEN [k \in 1..t |-> Filler(k)]
    ELSE [k \in 1..p |-> Filler(k)] \o SPI_FLASH_DESCRIPTOR_SIGNATURE
         \o [k \in 1..t |-> Filler(p + 4 + k)]

\* Signature offsets: none, the image's start, 0x0F, 0x10, 0x11.
SigOffsets == {-1, 0, 15, 16, 17}

\* Two signatures, the first below 0x10.
TwoSignatures == Image(15, 13) \o SPI_FLASH_DESCRIPTOR_SIGNATURE \o Image(-1, 4)

RomKinds == {"bytes", "list"}

\* The content of a full descriptor outside its map: the filler, all ones,
\* or the filler with every dword at an offset 12 mod 16 all ones (with a
\* region base that is a multiple of 16: FLREG3, FLREG7 and FLREG11).
Fills == {"filler", "ones", "ones3"}

FillByte(f, k) ==
    CASE f = "ones" -> 255
      [] f = "ones3" -> IF ((k - 1) \div 4) % 4 = 3 THEN 255 ELSE Filler(k)
      [] OTHER -> Filler(k)

\* A 4096-byte descriptor at the start of the image: the signature at 0x10,
\* FLMAP0 = m0, FLMAP1 = m1, FLMAP2 = 0 and the content f elsewhere.
Descriptor(m0, m1, f) ==
    [k \in 1..16 |-> Filler(k)] \o SPI_FLASH_DESCRIPTOR_SIGNATURE \o m0 \o m1
    \o ZeroDword \o [k \in 1..(SPI_FLASH_DESCRIPTOR_SIZE - 32) |-> FillByte(f, 32 + k)]

\* FLMAP0 values: FCBA, NC, FRBA, NR = (0x03, 0, 0x04, 4), (0xFF, 3, 0xFF, 7),
\* (0x01, 1, 0x00, 0), (0x10, 0, 0xFE, 3).
Flmap0s == {<<3, 0, 4, 4>>, <<255, 3, 255, 7>>, <<1, 1, 0, 0>>, <<16, 0, 254, 3>>}

\* FLMAP1 values: FMBA, NM = (0x06, 2), (0xFF, 7), (0x08, 0).
Flmap1s == {<<6, 2, 0, 0>>, <<255, 7, 16, 1>>, <<8, 0, 0, 0>>}

\* The FLREG<r> a platform defines: all twelve, or the first five.
FlregDefs == {AllFlregs, 0..4}

\* One call of parse_spi_flash_descriptor on an image.
InitFd ==
    /\ InitHw(0, 1, TRUE, TRUE)
    /\ CallBase("parse_spi_flash_descriptor", 0, 0, 0, "chars")
    /\ InitIdentity(TRUE, ZeroDword, NoSfdp)
    /\ NoCfg
    /\ NoLock
    /\ \E kind \in RomKinds :
          \/ \E p \in SigOffsets, t \in 0..MaxTail : InitParse(Image(p, t), kind)
          \/ InitParse(TwoSignatures, kind)
          \/ \E m0 \in Flmap0s, m1 \in Flmap1s, f \in Fills, hasnr \in BOOLEAN,
                defs \in FlregDefs :
                InitParseOn(Descriptor(m0, m1, f) \o Image(-1, MaxTail), kind,
                            hasnr, defs)

NextFd ==
    \/ parse_spi_flash_descriptor_enter
    \/ parse_unpack
    \/ parse_map
    \/ parse_component
    \/ parse_region
    \/ parse_master
    \/ parse_upper_map

SpecFd == InitFd /\ [][NextFd]_vars

(* --------------- regions, protected ranges, BIOS control ------------- *)
\* What these calls leave alone.
cfgFrame ==
    <<hwVars, op, spi_fla, data_byte_count, wbuf, bufKind, secondCall, written,
      cyclesOk, idVars, fdVars, lockVars, xferVars, cycle_done, hsfsts, poll_i,
      waitFor, cyc, waitObs, log, cycles, observedIdle, goBeforeIdle, hwErr, wrote>>

\* Lines 325-329: range_base and range_limit of a region register value.
RegionOf(freg) ==
    [range_base |-> Shl(Field(freg, "RB"), SPI_FLA_SHIFT),
     range_limit |-> BitOr(Shl(Field(freg, "RL"), SPI_FLA_SHIFT), SPI_FLA_PAGE_MASK),
     freg |-> freg]

\* get_SPI_region(spi_region_id): (None, None, None) without the register
get_SPI_region(spi_region_id) ==
    IF spi_region_id \notin freg_defs
    THEN [none |-> TRUE]
    ELSE [none |-> FALSE] @@ RegionOf(fregs[spi_region_id])

\* "if all_regions or (range_limit >= range_base):"
RegionListed(allr, range_base, range_limit) == allr \/ range_limit >= range_base

\* spi_regions = {}
get_SPI_regions_enter ==
    /\ pc = "enter"
    /\ op = "get_SPI_regions"
    /\ spi_regions' = <<>>
    /\ region_idx' = 0
    /\ pc' = "g_loop"
    /\ UNCHANGED <<cfgFrame, ret, fregs, freg_defs, all_regions, pr_num, pr_regs,
                   pr_defs, bc, smi_reverts, ble, bioswe, smmbwp, cfgLog>>

\* One turn of "for r in SPI_REGION", and "return spi_regions" after the last.
get_SPI_regions_step ==
    /\ pc = "g_loop"
    /\ op = "get_SPI_regions"
    /\ IF region_idx < SPI_REGION_NUMBER_IN_FD
       THEN LET g == get_SPI_region(region_idx)
            IN /\ cfgLog' = Append(cfgLog, <<"region", region_idx>>)
               /\ spi_regions' =
                     IF ~g.none /\ RegionListed(all_regions, g.range_base, g.range_limit)
                     THEN [k \in DOMAIN spi_regions \cup {region_idx} |->
                             IF k = region_idx
                             THEN [range_base |-> g.range_base,
                                   range_limit |-> g.range_limit,
                                   range_size |-> g.range_limit - g.range_base + 1,
                                   freg |-> g.freg]
                             ELSE spi_regions[k]]
                     ELSE spi_regions
               /\ region_idx' = region_idx + 1
               /\ pc' = "g_loop"
               /\ ret' = ret
       ELSE /\ ReturnValue(spi_regions)
            /\ UNCHANGED <<spi_regions, region_idx, cfgLog>>
    /\ UNCHANGED <<cfgFrame, fregs, freg_defs, all_regions, pr_num, pr_regs,
                   pr_defs, bc, smi_reverts, ble, bioswe, smmbwp>>

\* "if pr_num > SPI_MAX_PR_COUNT: return None"
PrRefused(p) == p > SPI_MAX_PR_COUNT

\* "if wpe or rpe:" before "limit |= SPI_FLA_PAGE_MASK"
LimitMasked(wpe, rpe) == wpe \/ rpe

\* int(cs.get_register_def('PR<p>')['offset'], 16): PR0 at 0x74, four bytes each
PrOffset(p) == 116 + 4 * p

\* Lines 354-366: the tuple returned for the register value pr_j of PR<p>.
ProtectedRange(p, pr_j) ==
    LET base == Shl(Field(pr_j, "PRB"), SPI_FLA_SHIFT)
        limit == Shl(Field(pr_j, "PRL"), SPI_FLA_SHIFT)
        wpe == 0 # Field(pr_j, "WPE")
        rpe == 0 # Field(pr_j, "RPE")
    IN [base |-> base,
        limit |-> IF LimitMasked(wpe, rpe) THEN BitOr(limit, SPI_FLA_PAGE_MASK)
                  ELSE limit,
        wpe |-> wpe, rpe |-> rpe, pr_j_reg |-> PrOffset(p), pr_j |-> pr_j]

\* get_SPI_Protected_Range(pr_num); a name without a register definition makes
\* cs.get_register_def fail.
get_SPI_Protected_Range ==
    /\ pc = "enter"
    /\ op = "get_SPI_Protected_Range"
    /\ IF PrRefused(pr_num)
       THEN ReturnNone /\ cfgLog' = cfgLog
       ELSE IF pr_num \notin pr_defs
       THEN /\ cfgLog' = Append(cfgLog, <<"get_register_def", pr_num>>)
            /\ pc' = "done"
            /\ ret' = [kind |-> "raise", err |-> "UnknownRegister"]
       ELSE /\ cfgLog' = cfgLog \o <<<<"get_register_def", pr_num>>,
                                     <<"read_register", pr_num>>>>
            /\ ReturnValue(ProtectedRange(pr_num, pr_regs[pr_num]))
    /\ UNCHANGED <<cfgFrame, fregs, freg_defs, all_regions, spi_regions, region_idx,
                   pr_num, pr_regs, pr_defs, bc, smi_reverts, ble, bioswe, smmbwp>>

\* Lines 529-542: the three controls are read; "if bioswe == 1: return True".
\* Variant: the call never returns before the write.
AlreadyEnabledNever(v) == FALSE

\* "if bioswe == 1: ... return True"
AlreadyEnabled(v) == v = 1

disable_BIOS_write_protection_enter ==
    /\ pc = "enter"
    /\ op = "disable_BIOS_write_protection"
    /\ ble' = bc.BLE /\ bioswe' = bc.BIOSWE /\ smmbwp' = bc.SMM_BWP
    /\ cfgLog' = cfgLog \o <<<<"get_control", "BiosLockEnable">>,
                             <<"get_control", "BiosWriteEnable">>,
                             <<"get_control", "SmmBiosWriteProtection">>>>
    /\ IF AlreadyEnabled(bioswe') THEN ReturnValue(TRUE) ELSE pc' = "d_set" /\ ret' = ret
    /\ UNCHANGED <<cfgFrame, fregs, freg_defs, all_regions, spi_regions, region_idx,
                   pr_num, pr_regs, pr_defs, bc, smi_reverts>>

\* What BIOSWE holds once a write of v has been handled: with BLE set the
\* write of 1 raises an SMI, and a handler that guards the flash clears the bit.
BiosweAfterWrite(v) == IF v = 1 /\ bc.BLE = 1 /\ smi_reverts THEN 0 ELSE v

\* cs.set_control('BiosWriteEnable', 1)
disable_BIOS_write_protection_set ==
    /\ pc = "d_set"
    /\ op = "disable_BIOS_write_protection"
    /\ bc' = [bc EXCEPT !.BIOSWE = BiosweAfterWrite(1)]
    /\ cfgLog' = Append(cfgLog, <<"set_control", "BiosWriteEnable">>)
    /\ pc' = "d_check"
    /\ UNCHANGED <<cfgFrame, ret, fregs, freg_defs, all_regions, spi_regions,
                   region_idx, pr_num, pr_regs, pr_defs, smi_reverts, ble, bioswe,
                   smmbwp>>

\* Variant: the write is taken to have worked.
WriteAssumed(v) == TRUE

\* "return (bioswe == 1)"
WriteEnabled(v) == v = 1

\* bioswe = cs.get_control('BiosWriteEnable') and the return
disable_BIOS_write_protection_check ==
    /\ pc = "d_check"
    /\ op = "disable_BIOS_write_protection"
    /\ bioswe' = bc.BIOSWE
    /\ cfgLog' = Append(cfgLog, <<"get_control", "BiosWriteEnable">>)
    /\ ReturnValue(WriteEnabled(bioswe'))
    /\ UNCHANGED <<cfgFrame, fregs, freg_defs, all_regions, spi_regions, region_idx,
                   pr_num, pr_regs, pr_defs, bc, smi_reverts, ble, smmbwp>>

\* Region register values: an empty region at 0, two regions with
\* base <= limit, base 0x7FFF over limit 0, all ones, all field bits set with
\* bit 31 clear, only the reserved bits set, a one-page region.
FregValues ==
    <<ZeroDword, <<0, 5, 255, 15>>, <<3, 0, 255, 4>>, <<255, 127, 0, 0>>,
      <<255, 255, 255, 255>>, <<255, 255, 255, 127>>, <<0, 128, 0, 128>>,
      <<7, 0, 7, 0>>>>

\* Protected-range register values: zero; base 0x500 and limit 0xFFF with
\* both enables; base 0x10 and limit 0x20 with neither enable, with WPE only,
\* with RPE only; all ones.
PrValues ==
    <<ZeroDword, <<0, 133, 255, 143>>, <<16, 0, 32, 0>>, <<16, 0, 32, 128>>,
      <<16, 128, 32, 0>>, <<255, 255, 255, 255>>>>

\* The values laid over the registers from position sh on.
Registers(vals, ids, sh) == [k \in ids |-> vals[((k + sh) % Len(vals)) + 1]]

CfgOps == {"get_SPI_regions", "get_SPI_Protected_Range",
           "disable_BIOS_write_protection"}

\* One call of get_SPI_regions, get_SPI_Protected_Range or
\* disable_BIOS_write_protection.
InitCfgCall ==
    /\ InitHw(0, 1, TRUE, TRUE)
    /\ InitIdentity(TRUE, ZeroDword, NoSfdp)
    /\ NoParse
    /\ NoLock
    /\ \E o \in CfgOps :
          /\ CallBase(o, 0, 0, 0, "chars")
          /\ \E sh \in 0..MaxShift, fdefs \in {AllFlregs, 0..5}, allr \in BOOLEAN,
                prn \in 0..(SPI_MAX_PR_COUNT + 2),
                prdefs \in {0..(SPI_MAX_PR_COUNT - 1), 0..SPI_MAX_PR_COUNT},
                lk \in {0, 1}, we \in {0, 1}, sm \in {0, 1}, smi \in BOOLEAN :
                /\ (o # "get_SPI_regions" => fdefs = AllFlregs /\ allr)
                /\ (o # "get_SPI_Protected_Range" => prn = 0 /\ prdefs = 0..SPI_MAX_PR_COUNT)
                /\ (o = "disable_BIOS_write_protection" => sh = 0)
                /\ (o # "disable_BIOS_write_protection"
                      => lk = 0 /\ we = 0 /\ sm = 0 /\ ~smi)
                /\ InitCfg(Registers(FregValues, AllFlregs, sh), fdefs, allr, prn,
                           Registers(PrValues, 0..SPI_MAX_PR_COUNT, sh), prdefs,
                           [BLE |-> lk, BIOSWE |-> we, SMM_BWP |-> sm], smi)

NextCfg ==
    \/ get_SPI_regions_enter
    \/ get_SPI_regions_step
    \/ get_SPI_Protected_Range
    \/ disable_BIOS_write_protection_enter
    \/ disable_BIOS_write_protection_set
    \/ disable_BIOS_write_protection_check

SpecCfg == InitCfgCall /\ [][NextCfg]_vars

(* ------------------------- concurrent callers ------------------------ *)
\* A read_spi(spi_fla, data_byte_count) and a write_spi(spi_fla, wbuf) run
\* by two callers over one controller that runs each cycle at its go write.
\* The engine has no lock of its own; the callers' lock is what lock_scope
\* says: "cycle" spans _send_spi_cycle (and the wait before the first cycle),
\* "chunk" spans a cycle together with the data-window accesses of its chunk,
\* "call" spans the whole call.
LockScopes == {"cycle", "chunk", "call"}

\* The steps of a call that scope sc puts under the lock.
Locked(sc, step) ==
    CASE sc = "call" -> TRUE
      [] sc = "chunk" -> step # "return"
      [] OTHER -> step \in {"enter", "faddr", "go", "wait"}

\* The step ends a span of the lock.
LastLocked(sc, t, step) ==
    CASE sc = "call" -> step = "return"
      [] sc = "chunk" -> step \in {"enter", "drain"} \/ (t = "W" /\ step = "wait")
      [] OTHER -> step \in {"enter", "wait"}

\* Caller t takes a step: under the lock it needs the lock free or its own,
\* and keeps it to the end of the span.
Take(t, step) ==
    /\ Locked(lock_scope, step) => mutex \in {"none", t}
    /\ mutex' = IF ~Locked(lock_scope, step) THEN mutex
                ELSE IF LastLocked(lock_scope, t, step) THEN "none" ELSE t

\* The burst size and the cycle command of caller t's call.
TaskDbc(t) == IF t = "R" THEN ReadBurst(data_byte_count) ELSE WRITE_DBC
TaskCmd(t) == IF t = "R" THEN HSFCTL_READ_CYCLE ELSE HSFCTL_WRITE_CYCLE
TaskChunks(t) == data_byte_count \div TaskDbc(t)

\* What the steps of the concurrent callers leave alone.
lockFrame ==
    <<fdv, w1c, prompt, pc, op, spi_fla, data_byte_count, wbuf, bufKind,
      secondCall, written, cyclesOk, idVars, fdVars, cfgVars, xferVars,
      cycle_done, hsfsts, poll_i, waitFor, cyc, ret, waitObs, log, cycles,
      observedIdle, goBeforeIdle, hwErr, wrote, lock_scope>>

\* _wait_SPI_flash_cycle_done on the idle controller: SCIP is sampled clear,
\* the clear pattern is written, the sample after it shows no error.
TaskWaitDone == hsfs' = HsfsAfterWrite(hsfs, HSFSTS_CLEAR)

\* The wait before the first cycle (lines 660, 708).
task_enter(t) ==
    /\ task[t].pc = "enter"
    /\ Take(t, "enter")
    /\ TaskWaitDone
    /\ task' = [task EXCEPT ![t].pc = "loop"]
    /\ UNCHANGED <<lockFrame, faddr, hsfc_dbc, hsfc, fdata, flash, inflight,
                   faddr_by, fdata_by, foreign>>

\* write_spi, lines 716-718: FDATA0 <- the chunk's dword
task_fdata(t) ==
    /\ t = "W"
    /\ task[t].pc = "loop"
    /\ task[t].i < TaskChunks(t)
    /\ Take(t, "fdata")
    /\ fdata' = [fdata EXCEPT ![0] = ChunkDword(wbuf, task[t].i, TaskDbc(t))]
    /\ fdata_by' = t
    /\ task' = [task EXCEPT ![t].pc = "send"]
    /\ UNCHANGED <<lockFrame, hsfs, faddr, hsfc_dbc, hsfc, flash, inflight,
                   faddr_by, foreign>>

\* _send_spi_cycle, lines 591 and 604: FADDR and the byte count
task_faddr(t) ==
    /\ \/ t = "R" /\ task[t].pc = "loop" /\ task[t].i < TaskChunks(t)
       \/ t = "W" /\ task[t].pc = "send"
    /\ Take(t, "faddr")
    /\ faddr' = FaddrValue(ChunkFla(spi_fla, task[t].i, TaskDbc(t)))
    /\ hsfc_dbc' = CountField(TaskDbc(t))
    /\ faddr_by' = t
    /\ task' = [task EXCEPT ![t].pc = "go"]
    /\ UNCHANGED <<lockFrame, hsfs, hsfc, fdata, flash, inflight, fdata_by,
                   foreign>>

\* _send_spi_cycle, line 606: the go write; the controller runs the cycle on
\* what FADDR and the window hold.
task_go(t) ==
    /\ task[t].pc = "go"
    /\ Take(t, "go")
    /\ hsfc' = TaskCmd(t)
    /\ GoWrite(TaskCmd(t))
    /\ foreign' = (foreign \/ faddr_by # t \/ (t = "W" /\ fdata_by # t))
    /\ fdata_by' = IF t = "R" THEN t ELSE fdata_by
    /\ task' = [task EXCEPT ![t].pc = "wait"]
    /\ UNCHANGED <<lockFrame, faddr, hsfc_dbc, faddr_by>>

\* _send_spi_cycle, line 613: the wait for the cycle; write_spi then turns to
\* its next chunk.
task_wait(t) ==
    /\ task[t].pc = "wait"
    /\ Take(t, "wait")
    /\ TaskWaitDone
    /\ task' = IF t = "R" THEN [task EXCEPT ![t].pc = "drain"]
               ELSE [task EXCEPT ![t].pc = "loop", ![t].i = task[t].i + 1]
    /\ UNCHANGED <<lockFrame, faddr, hsfc_dbc, hsfc, fdata, flash, inflight,
                   faddr_by, fdata_by, foreign>>

\* read_spi, lines 670-673: the chunk's dwords are read from the window
task_drain(t) ==
    /\ t = "R"
    /\ task[t].pc = "drain"
    /\ Take(t, "drain")
    /\ task' = [task EXCEPT ![t].pc = "loop", ![t].i = task[t].i + 1,
                            ![t].buf = task[t].buf \o DrainFull(fdata, TaskDbc(t) \div 4)]
    /\ UNCHANGED <<lockFrame, hsfs, faddr, hsfc_dbc, hsfc, fdata, flash, inflight,
                   faddr_by, fdata_by, foreign>>

\* The return after the last chunk (the transfers have no remainder).
task_return(t) ==
    /\ task[t].pc = "loop"
    /\ task[t].i = TaskChunks(t)
    /\ Take(t, "return")
    /\ task' = [task EXCEPT ![t].pc = "done"]
    /\ UNCHANGED <<lockFrame, hsfs, faddr, hsfc_dbc, hsfc, fdata, flash, inflight,
                   faddr_by, fdata_by, foreign>>

\* Transfer lengths of the concurrent callers: one and two chunks; one more
\* chunk per step of the bound.
LockLengths == {4 * k : k \in 1..MaxChunks}

InitLockRun ==
    /\ InitHw(0, 1, TRUE, TRUE)
    /\ InitIdentity(TRUE, ZeroDword, NoSfdp)
    /\ NoParse
    /\ NoCfg
    /\ \E a \in {0, 5}, len \in LockLengths, seed \in 0..MaxSeed :
          CallBase("write_spi", a, len, seed, "chars")
    /\ \E sc \in LockScopes : InitLock(sc)

NextLock ==
    \/ \E t \in Tasks : task_enter(t)
    \/ \E t \in Tasks : task_fdata(t)
    \/ \E t \in Tasks : task_faddr(t)
    \/ \E t \in Tasks : task_go(t)
    \/ \E t \in Tasks : task_wait(t)
    \/ \E t \in Tasks : task_drain(t)
    \/ \E t \in Tasks : task_return(t)

SpecLock == InitLockRun /\ [][NextLock]_vars

(* ------------------------------ properties --------------------------- *)
IsPrefix(p, q) == Len(p) <= Len(q) /\ \A k \in 1..Len(p) : p[k] = q[k]

InWait == pc \in {"w_poll", "w_sleep", "w_sample", "w_clear", "w_resample", "w_ret"}

\* The accesses of the current wait: the log from its first status sample.
WaitLog ==
    IF \E k \in 1..Len(log) : log[k] = "POLL"
    THEN SubSeq(log, CHOOSE k \in 1..Len(log) :
                        log[k] = "POLL" /\ \A m \in 1..(k - 1) : log[m] # "POLL",
                Len(log))
    ELSE <<>>

\* C1: no go bit is written before the previous cycle of the call was sampled
\* with SCIP clear, also after a burst whose wait timed out.
C1_NoGoBeforeIdle == ~goBeforeIdle

\* C2: when all 1000 polls and the sample after the sleep show SCIP set, the
\* wait returns failure having done exactly 1000 polls, one sleep, one sample,
\* in this order, and no write of the clear pattern.
C2_TimeoutSequence ==
    /\ (pc = "w_sleep" => polls = 1000 /\ sleeps = 0 /\ ~sawIdle)
    /\ (pc = "w_sample" => polls = 1000 /\ sleeps = 1 /\ ~sawIdle)
    /\ (pc = "w_ret" /\ ~sawIdle =>
            /\ ~cycle_done
            /\ polls = 1001
            /\ sleeps = 1
            /\ WaitLog = <<"POLL", "SLEEP", "POLL">>)

C2_Witness == pc = "w_ret" /\ ~sawIdle /\ waitFor = "send" /\ op = "write_spi"

\* C3: a wait samples the status at most 1001 times before it decides, takes
\* no sample after one that showed SCIP clear, sleeps at most once and only
\* after 1000 busy samples, and always has a next step until it returns.
C3_WaitBounded ==
    /\ polls <= 1001
    /\ sleeps <= 1
    /\ (pc = "w_poll" => polls = poll_i /\ poll_i < 1000)
    /\ (pc \in {"w_poll", "w_sleep", "w_sample"} => ~sawIdle)
    /\ (pc \in {"w_sleep", "w_sample"} => polls = 1000)
    /\ (pc = "w_sleep" => sleeps = 0)
    /\ (InWait => ENABLED Next)

C3_Witness == pc = "w_clear" /\ sleeps = 1 /\ sawIdle

\* The register accesses of a whole cycle of kind cmd, in the order claimed.
C4Head(cmd) == IF cmd = 7 THEN <<"FADDR", "GO">> ELSE <<"FADDR", "DBC", "GO">>
C4Logs(cmd) ==
    {C4Head(cmd) \o t : t \in {<<"POLL", "CLEAR", "RESAMPLE">>,
                               <<"POLL", "SLEEP", "POLL", "CLEAR", "RESAMPLE">>,
                               <<"POLL", "SLEEP", "POLL">>}}

\* C4: a cycle's accesses are the FADDR write (target address masked to 27
\* bits), the byte count unless the cycle is an Erase, the go write, the status
\* polling, the status clear, in this order.
C4_CycleOrder ==
    (pc # "s_faddr" /\ log # <<>> /\ log[1] = "FADDR") =>
        /\ \E full \in C4Logs(cyc.cmd) : IsPrefix(log, full)
        /\ faddr < 134217728
        /\ faddr = cyc.fla % 134217728
        /\ (cyc.cmd = 7 => \A k \in 1..Len(log) : log[k] # "DBC")
        /\ (SendReturned => log \in C4Logs(cyc.cmd))

C4_Witness == SendReturned /\ cyc.cmd = 7 /\ cycle_done /\ cyc.fla > 134217727

\* C5: once SCIP was sampled clear the wait writes the clear pattern,
\* re-samples, and succeeds iff that sample has neither AEL nor FCERR set.
C5_ClearThenJudge ==
    /\ (pc = "w_resample" /\ w1c => hsfs % 8 = 0)
    /\ (pc = "w_ret" /\ sawIdle =>
            /\ Len(log) >= 2
            /\ SubSeq(log, Len(log) - 1, Len(log)) = <<"CLEAR", "RESAMPLE">>
            /\ cycle_done = ((hsfsts \div 4) % 2 = 0 /\ (hsfsts \div 2) % 2 = 0))

C5_Witness ==
    pc = "w_ret" /\ sawIdle /\ waitFor = "send" /\ ~cycle_done /\ (hsfsts \div 4) % 2 = 1

\* C6: on a write-1-to-clear controller, a cycle the hardware finished with AEL
\* or FCERR set makes _send_spi_cycle return failure.
C6_HwErrorReported == (SendReturned /\ w1c /\ hwErr) => ~cycle_done

\* C7: with HSFS.FDV = 0 the call raises before any register write and
\* without any cycle.
C7_FdvZeroAborts ==
    fdv = 0 =>
        /\ pc \in {"enter", "done"}
        /\ wrote = {}
        /\ cycles = <<>>
        /\ faddr = 0 /\ hsfc = 0 /\ hsfc_dbc = 0
        /\ (pc = "done" => ret.kind = "raise" /\ ret.err = "SpiRuntimeError")

C7_Witness ==
    /\ fdv = 0 /\ pc = "done" /\ op = "erase_spi_block"
    /\ ret.kind = "raise" /\ ret.err = "SpiRuntimeError"

\* C8: when all cycles succeed read_spi returns exactly data_byte_count bytes,
\* in 64-byte bursts when data_byte_count >= 64 and 4-byte bursts otherwise.
C8_ReadLengthAndBurst ==
    (op = "read_spi" /\ data_byte_count \in {0, 1, 3, 4, 63, 64, 65, 127, 128}) =>
        LET burst == IF data_byte_count >= 64 THEN 64 ELSE 4
        IN /\ (pc = "done" /\ ret.kind = "value" /\ cyclesOk
                  => Len(ret.val) = data_byte_count)
           /\ (pc # "enter" /\ ret.kind # "raise" => dbc = burst)
           /\ \A k \in 1..Len(cycles) :
                  k <= data_byte_count \div burst => cycles[k][2] = burst - 1

C8_Witness ==
    /\ pc = "done" /\ op = "read_spi" /\ ret.kind = "value" /\ cyclesOk
    /\ data_byte_count = 127 /\ Len(ret.val) = 127 /\ Len(cycles) = 2

\* The cycles a transfer of len bytes at fla is claimed to issue.
C9Expected(cmd, burst, fla, len) ==
    LET nn == len \div burst
        rr == len % burst
    IN [k \in 1..(nn + IF rr # 0 THEN 1 ELSE 0) |->
           IF k <= nn THEN <<cmd, burst - 1, fla + (k - 1) * burst>>
           ELSE <<cmd, rr - 1, fla + nn * burst>>]

C9Cycles ==
    IF op = "read_spi"
    THEN C9Expected(HSFCTL_READ_CYCLE, IF data_byte_count >= 64 THEN 64 ELSE 4,
                    spi_fla, data_byte_count)
    ELSE C9Expected(HSFCTL_WRITE_CYCLE, 4, spi_fla, data_byte_count)

\* C9: read_spi and write_spi issue n full-burst cycles at address + i*burst
\* with count burst-1, in increasing i, then one cycle at address + n*burst
\* with count r-1 iff r # 0, and no other cycle.
C9_BurstSchedule ==
    op \in {"read_spi", "write_spi"} =>
        /\ IsPrefix(cycles, C9Cycles)
        /\ (pc = "done" /\ ret.kind = "value" => cycles = C9Cycles)

C9_Witness ==
    /\ pc = "done" /\ op = "write_spi" /\ ret.kind = "value"
    /\ data_byte_count = 65 /\ Len(cycles) = 17

\* write_spi on an enabled controller runs to its return statement.
WriteSpiReturns ==
    (op = "write_spi" /\ pc = "done" /\ fdv = 1) => ret.kind # "raise"

\* The read after a successful write returns the written byte values.
ReadBackEqual ==
    (pc = "done" /\ secondCall /\ op = "read_spi" /\ ret.kind = "value"
        /\ written.ok /\ cyclesOk)
    => ret.val = written.bytes

\* C10: write_spi(address, bytes) then read_spi(address, len(bytes)), all
\* cycles succeeding, returns bytes: the write accepts the byte sequence and
\* the read returns its bytes, for every length.
C10_RoundTrip == WriteSpiReturns /\ ReadBackEqual

C10_Witness ==
    /\ pc = "done" /\ secondCall /\ op = "read_spi" /\ ret.kind = "value"
    /\ written.ok /\ cyclesOk
    /\ Len(written.bytes) = 127
    /\ spi_fla = PCH_RCBA_SPI_FADDR_MASK - 1
    /\ ret.val = written.bytes

\* C11: a read_spi call with a failed burst cycle goes on with the remaining
\* bursts and reports failure: it does not return a byte buffer.
C11_ReadFailureReported ==
    (op = "read_spi" /\ ~secondCall /\ pc = "done" /\ ~cyclesOk)
    => /\ cycles = C9Cycles
       /\ ret.kind # "value"

\* C12: a write_spi call with a failed burst cycle still issues every burst of
\* the failure-free schedule, with the same data in FDATA0, and returns
\* success iff every burst cycle succeeded.
C12_WriteContinues ==
    op = "write_spi" =>
        /\ (pc = "done" /\ ret.kind = "value"
               => cycles = C9Cycles /\ ret.val = cyclesOk)
        /\ (pc \in {"s_faddr", "s_dbc", "s_go"}
               => \A j \in 0..cyc.dbc :
                      ByteOf(fdata[0], j) = wbuf[(cyc.fla - spi_fla) + j + 1])

C12_Witness ==
    /\ op = "write_spi" /\ pc = "done" /\ ret.kind = "value"
    /\ ret.val = FALSE /\ Len(cycles) = 2 /\ cycle_done

\* C13: after the entry wait found the controller idle, erase_spi_block issues
\* one erase cycle at spi_fla and returns that cycle's outcome; no second
\* cycle follows a failed one.
C13_EraseOutcome ==
    op = "erase_spi_block" =>
        /\ IsPrefix(cycles, <<<<HSFCTL_ERASE_CYCLE, 0, spi_fla>>>>)
        /\ (pc = "done" /\ ret.kind = "value"
               => /\ cycles = <<<<HSFCTL_ERASE_CYCLE, 0, spi_fla>>>>
                  /\ ret.val = cycle_done
                  /\ ret.val = cyclesOk)

C13_Witness ==
    /\ op = "erase_spi_block" /\ pc = "done" /\ ret.kind = "value"
    /\ ret.val = FALSE /\ Len(cycles) = 1


\* C14: get_SPI_JEDEC_ID returns byte 0 of the raw dword in bits 16-23, byte 1
\* in bits 8-15, byte 2 in bits 0-7 and zero in bits 24-31; 0x00124001 gives
\* 0x014012.
C14_JedecReorder ==
    (op = "get_SPI_JEDEC_ID" /\ pc = "done" /\ has_fcycle /\ ret.kind = "value") =>
        LET d == fdata[0]
        IN /\ ret.val = <<d[3], d[2], d[1], 0>>
           /\ (cyclesOk /\ ~w1c => d = jedec_id)
           /\ (d = <<1, 64, 18, 0>> => ret.val = <<18, 64, 1, 0>>)

C14_Witness ==
    /\ op = "get_SPI_JEDEC_ID" /\ pc = "done" /\ ret.kind = "value" /\ has_fcycle
    /\ cyclesOk /\ jedec_id = <<1, 64, 18, 0>> /\ ret.val = <<18, 64, 1, 0>>

\* C15: a failed JEDEC ID cycle makes get_SPI_JEDEC_ID report failure: no
\* identity is returned.
C15_JedecFailureReported ==
    (op = "get_SPI_JEDEC_ID" /\ pc = "done" /\ ~cyclesOk) => ret.kind # "value"

\* The indices written to BIOS_PTINX for component c, in order.
PtReads(c) == LET Mine(off) == off \div 16384 = c IN SelectSeq(ptlog, Mine)

\* The components whose signature dword is 0x50444653.
SfdpComponents == {c \in {0, 1} : sfdp.sig[c + 1] = <<83, 70, 68, 80>>}

\* C16: for a component without the SFDP signature only the signature dword
\* is read: no version dword, parameter header, SFDP cycle or table read; the
\* scan goes on to the next component, and a scan that found no component
\* returns False.
C16_SfdpNotFound ==
    op = "get_SPI_SFDP" =>
        /\ \A c \in {0, 1} \ SfdpComponents :
              /\ IsPrefix(PtReads(c), <<c * 16384>>)
              /\ (component > c => PtReads(c) = <<c * 16384>>)
        /\ Len(cycles) <= Cardinality(SfdpComponents)
        /\ (SfdpComponents = {} => fdataReads = <<>> /\ wrote \subseteq {"BIOS_PTINX"})
        /\ (pc = "done" /\ ret.kind = "value"
               => /\ component = 2
                  /\ ret.val = (SfdpComponents # {}))

C16_Witness ==
    /\ op = "get_SPI_SFDP" /\ pc = "done" /\ ret.kind = "value"
    /\ SfdpComponents = {1} /\ ret.val = TRUE
    /\ PtReads(0) = <<0>> /\ Len(PtReads(1)) > 3

TableReads(c) ==
    LET InTable(off) == off \div 16384 = c /\ off % 16384 >= 8192
    IN SelectSeq(ptlog, InTable)

\* C18: for every component with the signature, get_SPI_SFDP reads the
\* sfdp.len dwords of the first parameter table at (c << 14 | 0x2000) + 4k,
\* k increasing, also when the SFDP cycle of the component failed.
C18_TableDump ==
    (op = "get_SPI_SFDP" /\ pc = "done" /\ ret.kind = "value") =>
        \A c \in SfdpComponents :
            TableReads(c) = [k \in 1..sfdp.len |-> c * 16384 + 8192 + 4 * (k - 1)]


\* The signature 0x0FF0A55A, little-endian, stands at offset p of the image.
SigAt(p) ==
    /\ p + 4 <= Len(rom)
    /\ rom[p + 1] = 90 /\ rom[p + 2] = 165 /\ rom[p + 3] = 240 /\ rom[p + 4] = 15

\* C19: with the signature absent from the image, or found below offset 0x10,
\* parse_spi_flash_descriptor returns None: no slice of the image is taken
\* and nothing is decoded.
C19_SignatureNotFound ==
    (/\ op = "parse_spi_flash_descriptor"
     /\ romKind = "bytes"
     /\ \/ \A p \in 0..Len(rom) : ~SigAt(p)
        \/ \E p \in 0..15 : SigAt(p))
    => /\ pc \in {"enter", "done"}
       /\ (pc = "done" => ret.kind = "none")
       /\ fdesc = <<>>
       /\ decoded = <<>>

C19_Witness ==
    /\ op = "parse_spi_flash_descriptor" /\ romKind = "bytes"
    /\ pc = "done" /\ ret.kind = "none"
    /\ SigAt(15) /\ pos = 15 /\ Len(rom) > 19

\* C20: with the signature at p >= 0x10 and fewer than 4096 bytes from
\* p - 0x10 on, the parse ends in TruncatedImage and decodes no field.
C20_TruncatedImage ==
    (/\ op = "parse_spi_flash_descriptor"
     /\ pc # "enter"
     /\ pos >= 16
     /\ Len(rom) - (pos - 16) < 4096)
    => /\ decoded = <<>>
       /\ (pc = "done" => ret.kind = "raise" /\ ret.err = "TruncatedImage")


\* C30: when the wait before the first cycle of read_spi, write_spi or
\* erase_spi_block fails, the call returns None at once: the address, control
\* and data-window registers are unwritten and no cycle has been issued.
CycleRegisters == {"FADDR", "HSFC", "HSFC_DBC"} \cup {"FDATA0"}

C30_EntryWaitFailure ==
    [][(pc = "w_ret" /\ waitFor = "entry" /\ ~cycle_done)
          => /\ pc' = "done"
             /\ ret'.kind = "none"
             /\ wrote' \cap CycleRegisters = {}
             /\ cycles' = <<>>]_vars

C30_Witness ==
    /\ pc = "done" /\ waitFor = "entry" /\ ~cycle_done
    /\ op = "erase_spi_block"
    /\ ret.kind = "none"
    /\ "HSFS" \in wrote
    /\ cycles = <<>>


\* C27: get_SPI_JEDEC_ID issues exactly one cycle, the JEDEC ID cycle at
\* address 0 with count field 3 (byte count 4, stored minus one), and then
\* reads exactly one dword, slot 0 of the data window.
C27_JedecCycle ==
    op = "get_SPI_JEDEC_ID" =>
        /\ Len(cycles) <= 1
        /\ \A k \in 1..Len(cycles) :
              cycles[k] = <<HSFCTL_JEDEC_CYCLE, SPI_READ_WRITE_DEF_DBC - 1, 0>>
        /\ fdataReads \in {<<>>, <<0>>}
        /\ (pc = "done" /\ has_fcycle /\ ret.kind = "value"
               => Len(cycles) = 1 /\ fdataReads = <<0>>)

\* The parser is about to unpack a dword of the component, region or master
\* section, and the offset in fd of that dword.
SectionReadDue ==
    \/ pc = "p_comp"
    \/ pc = "p_reg" /\ sect_idx < nr
    \/ pc = "p_mstr" /\ sect_idx < nm

SectionReadOffset ==
    CASE pc = "p_comp" -> fcba + ComponentFields[sect_idx + 1][2]
      [] pc = "p_reg" -> frba + sect_idx * 4
      [] OTHER -> fmba + sect_idx * 4

\* C21: over a 4096-byte descriptor every dword unpacked in the component,
\* region and master sections lies at an offset o with 0 <= o and
\* o + 4 <= 4096; a read due at any other offset unpacks nothing and ends the
\* parse with struct.error.
C21_SectionReadsInBounds ==
    [][Len(fdesc) = SPI_FLASH_DESCRIPTOR_SIZE =>
          /\ \A k \in 1..Len(sectReads') :
                0 <= sectReads'[k] /\ sectReads'[k] + 4 <= SPI_FLASH_DESCRIPTOR_SIZE
          /\ (SectionReadDue /\ SectionReadOffset + 4 > SPI_FLASH_DESCRIPTOR_SIZE
                => /\ pc' = "done"
                   /\ ret'.kind = "raise"
                   /\ sectReads' = sectReads)]_vars

C21_Witness ==
    /\ Len(fdesc) = SPI_FLASH_DESCRIPTOR_SIZE
    /\ pc = "done" /\ ret.kind = "raise"
    /\ frba = 4080 /\ sect_idx = 4
    /\ sectReads # <<>> /\ sectReads[Len(sectReads)] = 4092

\* The dword of the image that the region section holds for region k.
RawFlreg(k) == SubSeq(rom, fd_off + frba + 4 * k + 1, fd_off + frba + 4 * k + 4)

\* The regions the parse has stored, and those it stored without the mark.
StoredRegions == {k \in 0..(Len(flregs) - 1) : flregs[k + 1].set}
PresentRegions == {k \in StoredRegions : flregs[k + 1].notused = ""}

AlignedAs(d, base, limit) ==
    /\ base = Field(d, "RB") * 4096
    /\ base % 4096 = 0
    /\ limit = Field(d, "RL") * 4096 + 4095
    /\ limit % 4096 = 4095

\* C23: every region get_SPI_region yields for a register value, and every
\* region the region section of parse_spi_flash_descriptor stores, has
\* base = RB << 12 and limit = (RL << 12) | 0xFFF.
C23_RegionAlignment ==
    /\ \A k \in DOMAIN spi_regions :
          AlignedAs(fregs[k], spi_regions[k].range_base, spi_regions[k].range_limit)
    /\ \A k \in StoredRegions :
          /\ AlignedAs(flregs[k + 1].flreg, RegionOf(flregs[k + 1].flreg).range_base,
                       RegionOf(flregs[k + 1].flreg).range_limit)
          /\ AlignedAs(flregs[k + 1].flreg, flregs[k + 1].base, flregs[k + 1].limit)

\* C24: for an index 0..4 get_SPI_Protected_Range returns, whatever the
\* enables are, base = PRB << 12 and limit = (PRL << 12) | 0xFFF, with the
\* write and the read enable reported exactly when WPE and RPE are nonzero.
C24_ProtectedRange ==
    (op = "get_SPI_Protected_Range" /\ pc = "done" /\ pr_num \in 0..4) =>
        /\ ret.kind = "value"
        /\ ret.val.pr_j = pr_regs[pr_num]
        /\ ret.val.base = Field(pr_regs[pr_num], "PRB") * 4096
        /\ ret.val.limit = Field(pr_regs[pr_num], "PRL") * 4096 + 4095
        /\ ret.val.wpe = (Field(pr_regs[pr_num], "WPE") # 0)
        /\ ret.val.rpe = (Field(pr_regs[pr_num], "RPE") # 0)

\* The set_control and get_control accesses to BiosWriteEnable, in order.
WriteEnableAccesses ==
    LET Mine(e) == e[2] = "BiosWriteEnable" IN SelectSeq(cfgLog, Mine)

\* C25: disable_BIOS_write_protection that finds BiosWriteEnable clear writes
\* it once, reads it again, and returns True exactly when that read shows it
\* set; when the write did not take effect it returns False.
C25_WriteVerified ==
    (op = "disable_BIOS_write_protection" /\ pc = "done"
       /\ cfgLog[2] = <<"get_control", "BiosWriteEnable">> /\ Len(cfgLog) > 3) =>
        /\ WriteEnableAccesses = <<<<"get_control", "BiosWriteEnable">>,
                                   <<"set_control", "BiosWriteEnable">>,
                                   <<"get_control", "BiosWriteEnable">>>>
        /\ ret.kind = "value"
        /\ ret.val = (bc.BIOSWE = 1)
        /\ (bc.BLE = 1 /\ smi_reverts => ret.val = FALSE)

C25_Witness ==
    /\ op = "disable_BIOS_write_protection" /\ pc = "done"
    /\ bc.BLE = 1 /\ bc.SMM_BWP = 1 /\ smi_reverts
    /\ Len(cfgLog) = 5
    /\ bc.BIOSWE = 0
    /\ ret.kind = "value" /\ ret.val = FALSE

\* get_SPI_regions(all_regions=False) lists a region whose register holds d.
ListedLive(d) ==
    RegionListed(FALSE, RegionOf(d).range_base, RegionOf(d).range_limit)

\* C28: for the dword of every region the parser stores, get_SPI_regions
\* (all_regions=False) over a register with that dword lists the region
\* exactly when the parser leaves it without the mark '(not used)'; neither
\* path takes an all-ones dword for a present region.
C28_SameClassification ==
    \A k \in StoredRegions :
        /\ ListedLive(flregs[k + 1].flreg) <=> flregs[k + 1].notused = ""
        /\ (flregs[k + 1].flreg = <<255, 255, 255, 255>>
              => ~ListedLive(flregs[k + 1].flreg) /\ flregs[k + 1].notused # "")

\* C29: for an index above 4 get_SPI_Protected_Range returns None and neither
\* looks up nor reads a PR register.
C29_IndexRefused ==
    (op = "get_SPI_Protected_Range" /\ pc = "done" /\ pr_num > 4) =>
        ret.kind = "none" /\ cfgLog = <<>>

\* Both concurrent callers have returned.
BothDone == \A t \in Tasks : task[t].pc = "done"

\* The bytes of the range before the calls.
OldBytes == [j \in 1..data_byte_count |-> FlashByte0(Fla(spi_fla + j - 1))]

\* The outcome of the read and the write is that of one of their two orders:
\* the read returns the range as it was or as written, the flash holds the
\* written bytes, and no cycle went out on another caller's address or data.
AsSequential ==
    /\ ~foreign
    /\ BothDone =>
          /\ task["R"].buf \in {OldBytes, wbuf}
          /\ \A j \in 1..data_byte_count : flash[Fla(spi_fla + j - 1)] = wbuf[j]

ReadRegisters == {"FADDR", "HSFC_DBC", "HSFC", "HSFS"}

\* The cycle type in the command of the k-th cycle issued.
CycleType(k) == Shr(cycles[k][1], 1) % 8

\* C31: a read_spi call writes only the address, byte-count, control and
\* status registers, so no data-window slot; every cycle it issues is of type
\* Read; and the flash holds what it held before the call, whatever the
\* outcomes of the bursts.
C31_ReadFrame ==
    op = "read_spi" =>
        /\ wrote \subseteq ReadRegisters
        /\ \A k \in 1..Len(cycles) : CycleType(k) = PCH_RCBA_SPI_HSFCTL_FCYCLE_READ
        /\ ~secondCall => flash = [x \in DOMAIN flash |-> FlashByte0(x)]

C31_Witness ==
    /\ op = "read_spi" /\ ~secondCall /\ pc = "done"
    /\ Len(cycles) >= 2 /\ ~cyclesOk
    /\ wrote = ReadRegisters

\* The control writes of the call so far.
ControlWrites ==
    LET IsWrite(e) == e[1] = "set_control" IN SelectSeq(cfgLog, IsWrite)

\* C32: disable_BIOS_write_protection entered with BiosWriteEnable set returns
\* True at once without a control write; in every execution it writes at most
\* once, and only BiosWriteEnable, never BiosLockEnable or
\* SmmBiosWriteProtection.
C32_WriteFrame ==
    /\ [](op = "disable_BIOS_write_protection" =>
            /\ Len(ControlWrites) <= 1
            /\ \A k \in 1..Len(ControlWrites) : ControlWrites[k][2] = "BiosWriteEnable"
            /\ bc.BLE = ble \/ pc = "enter"
            /\ bc.SMM_BWP = smmbwp \/ pc = "enter")
    /\ [][(op = "disable_BIOS_write_protection" /\ pc = "enter" /\ bc.BIOSWE = 1) =>
            /\ pc' = "done"
            /\ ret' = [kind |-> "value", val |-> TRUE]
            /\ ControlWrites' = <<>>
            /\ bc' = bc]_vars

C32_Witness ==
    /\ op = "disable_BIOS_write_protection" /\ pc = "done"
    /\ bc.BIOSWE = 1 /\ bc.BLE = 1 /\ bc.SMM_BWP = 1
    /\ Len(cfgLog) = 3 /\ ControlWrites = <<>>
    /\ ret.kind = "value" /\ ret.val = TRUE

===========================================================================
